---------------------------- MODULE Spec2Model ----------------------------
(***************************************************************************)
(* A model of mwalib's C observation-context construction:                 *)
(*   src/lib/src/args.c       (initialise_args .. process_args)            *)
(*   src/lib/src/gpubox.c     (determine_gpubox_batches, _fine_channels,   *)
(*                             determine_obs_times)                        *)
(*   src/lib/src/fitsreader.c (open_fits, get_fits_*_value, ...)           *)
(* cfitsio is the opaque container reader: opening a file, reading a       *)
(* keyword and moving between HDUs either succeed or fail, and the         *)
(* contents of a file are revealed when the code first reads them.         *)
(***************************************************************************)
EXTENDS Integers, Sequences, FiniteSets, TLC

(***************************************************************************)
(* Program constants (src/lib/src/global.h) and C's exit codes.            *)
(***************************************************************************)
MWALIB_ERROR_MESSAGE_LEN == 2048
MWALIB_MAX_GPUBOX_BATCHES == 10
MWALIB_MAX_COARSE_CHANNELS == 50

EXIT_SUCCESS == 0
EXIT_FAILURE == 1

(***************************************************************************)
(* Bounds of the model.                                                    *)
(***************************************************************************)
\* files handed to add_gpubox_filename by the harness
MaxFiles == 2
\* largest absolute value an uninitialised int is read as
MaxGarbage == 1
\* HDUs a gpubox file may hold
MaxHdus == 2
\* files in the list determine_gpubox_batches is started on directly
MaxBatchFiles == 3
\* characters of a keyword value the fitsreader functions are started on directly
MaxChars == 3

(***************************************************************************)
(* C strings.  A string is a record [body, pad]: the characters of body    *)
(* followed by pad copies of the character "x"; the terminating NUL is     *)
(* implicit.  pad lets a string be longer than the error buffer without    *)
(* spelling it out.  A char pointer is such a record or NULL.              *)
(***************************************************************************)
Str(body) == [isNull |-> FALSE, body |-> body, pad |-> 0]

Padded(body, n) == [isNull |-> FALSE, body |-> body, pad |-> n]

\* the null char pointer
NULL == [isNull |-> TRUE, body |-> <<>>, pad |-> 0]

strlen(s) == Len(s.body) + s.pad

NUL == "NUL"

CharAt(s, i) ==
    IF i <= Len(s.body) THEN s.body[i]
    ELSE IF i <= strlen(s) THEN "x"
    ELSE NUL

IsDigit(c) == c \in {"0", "1", "2", "3", "4", "5", "6", "7", "8", "9"}

DigitVal(c) ==
    CASE c = "0" -> 0 [] c = "1" -> 1 [] c = "2" -> 2 [] c = "3" -> 3
      [] c = "4" -> 4 [] c = "5" -> 5 [] c = "6" -> 6 [] c = "7" -> 7
      [] c = "8" -> 8 [] c = "9" -> 9

IsSpace(c) == c = " "

RECURSIVE SkipSpace(_, _)
SkipSpace(s, p) == IF IsSpace(CharAt(s, p)) THEN SkipSpace(s, p + 1) ELSE p

RECURSIVE ScanDigits(_, _, _)
\* the digits from position p on: [val, next]
ScanDigits(s, p, acc) ==
    IF IsDigit(CharAt(s, p))
    THEN ScanDigits(s, p + 1, acc * 10 + DigitVal(CharAt(s, p)))
    ELSE [val |-> acc, next |-> p]

\* One %d conversion (strtol, base 10) at position p: leading white space,
\* an optional sign, at least one digit.  [ok, val, next, eof].
ScanInt(s, p) ==
    LET q == SkipSpace(s, p)
        neg == CharAt(s, q) = "-"
        r == IF CharAt(s, q) \in {"-", "+"} THEN q + 1 ELSE q
        d == ScanDigits(s, r, 0)
    IN  IF IsDigit(CharAt(s, r))
        THEN [ok |-> TRUE, val |-> IF neg THEN 0 - d.val ELSE d.val,
              next |-> d.next, eof |-> FALSE]
        ELSE [ok |-> FALSE, val |-> 0, next |-> r, eof |-> CharAt(s, q) = NUL]

RECURSIVE ScanFrom(_, _, _, _, _)
\* sscanf from directive fi of fmt at position p, vals converted so far.
\* A directive is "%d", "%*c" or a literal character.  The result is
\* [count, vals]: count is EOF (-1) when the input ends before the first
\* conversion.
ScanFrom(s, fmt, fi, p, vals) ==
    IF fi > Len(fmt) THEN [count |-> Len(vals), vals |-> vals]
    ELSE IF fmt[fi] = "%d"
    THEN LET r == ScanInt(s, p)
         IN  IF r.ok THEN ScanFrom(s, fmt, fi + 1, r.next, Append(vals, r.val))
             ELSE [count |-> IF r.eof /\ vals = <<>> THEN -1 ELSE Len(vals),
                   vals |-> vals]
    ELSE IF fmt[fi] = "%*c"
    THEN IF CharAt(s, p) # NUL THEN ScanFrom(s, fmt, fi + 1, p + 1, vals)
         ELSE [count |-> IF vals = <<>> THEN -1 ELSE Len(vals), vals |-> vals]
    ELSE IF CharAt(s, p) = fmt[fi] THEN ScanFrom(s, fmt, fi + 1, p + 1, vals)
    ELSE [count |-> IF CharAt(s, p) = NUL /\ vals = <<>> THEN -1 ELSE Len(vals),
          vals |-> vals]

sscanf(s, fmt) == ScanFrom(s, fmt, 1, 1, <<>>)

\* atoi/atol/atoll: the leading integer of the string, 0 when there is none
atoi(s) == ScanInt(s, 1).val

Max(a, b) == IF a >= b THEN a ELSE b

Min(a, b) == IF a <= b THEN a ELSE b

RECURSIVE DecLen(_)
\* characters printf's %d writes for n
DecLen(n) ==
    IF n < 0 THEN 1 + DecLen(0 - n)
    ELSE IF n < 10 THEN 1 ELSE 1 + DecLen(n \div 10)

(***************************************************************************)
(* The inputs of the model: file names the harness may be given, and the   *)
(* keyword values a file may hold.                                         *)
(***************************************************************************)
\* "1_2_gpubox01_0<b>.fits": the format with a batch number
NewName(b) ==
    Str(<<"1", "_", "2", "_", "g", "p", "u", "b", "o", "x", "0", "1", "_",
          "0", b, ".", "f", "i", "t", "s">>)

\* "1_2_gpubox01.fits": the old format, without a batch number
OldName == Str(<<"1", "_", "2", "_", "g", "p", "u", "b", "o", "x", "0", "1",
                 ".", "f", "i", "t", "s">>)

\* a name longer than the error buffer that matches neither format
LongName == Padded(<<"o", "b", "s">>, MWALIB_ERROR_MESSAGE_LEN)

GpuboxNames == {NewName("0"), NewName("1"), OldName, LongName}

\* "1_2_gpubox01.txt": the old format's head with another tail
TxtName == Str(<<"1", "_", "2", "_", "g", "p", "u", "b", "o", "x", "0", "1",
                 ".", "t", "x", "t">>)

\* the names of the lists determine_gpubox_batches is started on directly
BatchNames ==
    {NewName("0"), NewName("1"), NewName("2"), OldName, TxtName, LongName}

MetafitsNames == {Str(<<>>), Str(<<"m">>)}

\* the format strings of determine_gpubox_batches, one directive per element
FmtNew == <<"%d", "_", "%d", "_", "g", "p", "u", "b", "o", "x", "%d", "_",
            "%d", ".", "f", "i", "t", "s">>

FmtOld == <<"%d", "_", "%d", "_", "g", "p", "u", "b", "o", "x", "%d", ".",
            "f", "i", "t", "s">>

(***************************************************************************)
(* The state.                                                              *)
(***************************************************************************)
VARIABLES
    entry,         \* the function under execution at the top of the stack
    pc,            \* the position in the code
    args,          \* mwalibArgs_s
    obs,           \* mwaObsContext_s
    errorMessage,  \* the caller's buffer of MWALIB_ERROR_MESSAGE_LEN bytes
    errExtent,     \* bytes of errorMessage written so far, counted from its start
    heap,          \* live allocations made by process_args and its callees
    handles,       \* fitsfile handles that are open
    hdu,           \* the current HDU of each open gpubox file
    world,         \* what has been read from the files so far
    loc,           \* the locals of the running functions
    ret,           \* the value the last callee returned
    rc             \* the value the entry function returned

vars == <<entry, pc, args, obs, errorMessage, errExtent, heap, handles, hdu,
          world, loc, ret, rc>>

\* the value of a variable of the program that has not been assigned
UNINIT == -99

\* no return value yet
NONE == -1

\* a C array of n elements, each x
Array(n, x) == [k \in 0 .. n - 1 |-> x]

\* *obs as the caller hands it over: nothing in it is initialised
ObsUninit ==
    [obsid |-> UNINIT,
     start_time_milliseconds |-> UNINIT,
     end_time_milliseconds |-> UNINIT,
     num_baselines |-> UNINIT,
     num_pols |-> UNINIT,
     num_fine_channels |-> UNINIT,
     num_coarse_channels |-> UNINIT,
     coarse_channels |-> <<>>,
     metafits_filename |-> NULL,
     gpubox_filename_count |-> UNINIT,
     gpubox_filenames |-> <<>>,
     gpubox_ptrs |-> <<>>,
     gpubox_batch_count |-> UNINIT,
     gpubox_filename_batches |-> <<>>,
     gpubox_ptr_batches |-> <<>>]

\* the locals of determine_gpubox_batches and determine_obs_times
LocInit ==
    [i |-> 0, format |-> 0, batch |-> 0, batch_counts |-> <<>>]

\* a TIME/MILLITIM pair that has not been read yet
Unknown == [known |-> FALSE, TIME |-> NULL, MILLITIM |-> NULL]

\* the HDUs of a gpubox file of which nothing has been read
NothingRead == [k \in 1 .. MaxHdus |-> Unknown]

\* the numbers of HDUs file f may hold, given what has been read so far
\* (0: its HDUs have not been counted or visited yet)
HdusChoices(w, f) == IF w.hdus[f] = 0 THEN 1 .. MaxHdus ELSE {w.hdus[f]}

\* nothing has been read: the metafits keywords, the value an uninitialised
\* obs->num_coarse_channels is read as, and per gpubox file its number of
\* HDUs and the TIME/MILLITIM of each HDU; readAt[i] is the HDU at which
\* determine_obs_times read file i's first timestamp
WorldInit ==
    [gpstime |-> NULL, ninputs |-> NULL, channels |-> NULL, garbage |-> UNINIT,
     naxis2 |-> NULL, hdus |-> <<>>, time |-> <<>>, readAt |-> <<>>]

(***************************************************************************)
(* errorMessage.  The text is kept as the format that wrote it, the        *)
(* integers it was given, the suffixes appended to it and its length.      *)
(***************************************************************************)
EmptyMessage == [fmt |-> "", args |-> <<>>, sfx |-> <<>>, len |-> 0]

\* the length of each message of the library with its conversions left out
FmtLen(fmt) ==
    CASE fmt = "Metafits filename missing" -> 25
      [] fmt = "gpubox / mwax fits files missing" -> 32
      [] fmt = "malloc failed for obs->gpubox_filenames" -> 39
      [] fmt = "malloc failed for obs->gpubox_ptrs" -> 34
      [] fmt = "malloc failed for obs->gpubox_filenames[%d]" -> 41
      [] fmt = "malloc failed for coarse_channel_string" -> 39
      [] fmt = "malloc failed for obs->coarse_channels" -> 38
      [] fmt = "The number of gpubox files does not match the number of coarse-band channels specified by the metafits!" -> 103
      [] fmt = "Failed to determine the gpubox batch number for %s" -> 48
      [] fmt = "The batch number format of %s disagrees with other gpubox files!" -> 62
      [] fmt = "malloc failed for obs->gpubox_filename_batches" -> 46
      [] fmt = "malloc failed for obs->gpubox_ptr_batches" -> 41
      [] fmt = "malloc failed for obs->gpubox_filename_batches[%d] (batch count = %d)" -> 65
      [] fmt = "The batch number counts do not match! (%d for 00, %d for %02d)" -> 54
      [] fmt = "cfitsio-read long string associated with fits key %s is too long for supplied input string (size: %d) (get_fits_comma_delimited_ints)" -> 129
      [] fmt = "Failed to parse int from string in fits file (get_fits_comma_delimited_ints)" -> 76
      [] fmt = " (determine_gpubox_batches)" -> 27
      [] fmt = " (determine_gpubox_fine_channels)" -> 33
      [] fmt = " (determine_obs_times)" -> 22
      [] fmt = " (get_fits_hdu_count)" -> 21
      [] fmt = " (move_to_fits_hdu)" -> 19
      [] fmt = " (GPSTIME)" -> 10
      [] fmt = " (NINPUTS)" -> 10
      [] fmt = " (CHANNELS)" -> 11
      [] fmt = " (NAXIS2)" -> 9
      [] fmt = " (NCHANS)" -> 9
      [] fmt = " (TIME)" -> 7
      [] fmt = " (MILLITIM)" -> 11

\* snprintf(errorMessage, MWALIB_ERROR_MESSAGE_LEN, fmt, ...): convLen is the
\* length of the converted arguments; the text is cut to the buffer
snprintf(fmt, a, convLen) ==
    [fmt |-> fmt, args |-> a, sfx |-> <<>>,
     len |-> Min(FmtLen(fmt) + convLen, MWALIB_ERROR_MESSAGE_LEN - 1)]

\* sprintf(errorMessage + strlen(errorMessage), suffix): not bounded
sprintf_append(msg, suffix) ==
    [msg EXCEPT !.sfx = Append(@, suffix), !.len = @ + FmtLen(suffix)]

\* the bytes a write of the message msg reaches, the NUL included
Extent(old, msg) == Max(old, msg.len + 1)

\* fits_get_errstatus: cfitsio's text for a status, at most 30 characters;
\* the longest is the one that matters to the buffer
ErrStatusLens == {30}

fits_get_errstatus(n) ==
    [fmt |-> "cfitsio status", args |-> <<>>, sfx |-> <<>>, len |-> n]

(***************************************************************************)
(* The test harness (src/test/src/main.c): initialise_args, then           *)
(* set_metafits_filename when -m was given, add_gpubox_filename per        *)
(* positional argument, then process_args.                                 *)
(***************************************************************************)
\* initialise_args: no metafits filename, no gpubox filenames
initialise_args == [metafits_filename |-> NULL, gpubox_filenames |-> <<>>]

gpubox_filename_count(a) == Len(a.gpubox_filenames)

Init ==
    /\ entry = "process_args"
    /\ pc = "main"
    /\ args = initialise_args
    /\ obs = ObsUninit
    /\ errorMessage = EmptyMessage
    /\ errExtent = 0
    /\ heap = {}
    /\ handles = {}
    /\ hdu = <<>>
    /\ world = WorldInit
    /\ loc = LocInit
    /\ ret = NONE
    /\ rc = NONE

\* set_metafits_filename: malloc and strcpy; the harness exits when malloc fails
SetMetafitsFilename ==
    /\ pc = "main"
    /\ args.metafits_filename = NULL
    /\ args.gpubox_filenames = <<>>
    /\ \E name \in MetafitsNames, ok \in BOOLEAN :
          IF ok
          THEN /\ args' = [args EXCEPT !.metafits_filename = name]
               /\ pc' = "main"
          ELSE /\ pc' = "exit"
               /\ UNCHANGED args
    /\ UNCHANGED <<entry, obs, errorMessage, errExtent, heap, handles, hdu,
                   world, loc, ret, rc>>

\* add_gpubox_filename: malloc, strcpy and count + 1
AddGpuboxFilename ==
    /\ pc = "main"
    /\ gpubox_filename_count(args) < MaxFiles
    /\ \E name \in GpuboxNames, ok \in BOOLEAN :
          IF ok
          THEN /\ args' = [args EXCEPT !.gpubox_filenames = Append(@, name)]
               /\ pc' = "main"
          ELSE /\ pc' = "exit"
               /\ UNCHANGED args
    /\ UNCHANGED <<entry, obs, errorMessage, errExtent, heap, handles, hdu,
                   world, loc, ret, rc>>

\* main calls process_args(&args, &obs, error)
CallProcessArgs ==
    /\ pc = "main"
    /\ pc' = "pa_check"
    /\ UNCHANGED <<entry, args, obs, errorMessage, errExtent, heap, handles,
                   hdu, world, loc, ret, rc>>

(***************************************************************************)
(* process_args (src/lib/src/args.c:117-243).                              *)
(***************************************************************************)
\* return v from the entry function
Return(v) == pc' = "done" /\ rc' = v

\* the process dies (a signal): nothing is returned
Crash == pc' = "crashed" /\ rc' = NONE

\* strlen of a char pointer.  strlen(NULL) is undefined: the process dies
\* (NONE), or address 0 is readable and holds a NUL.  (Were it to hold
\* anything else, process_args would go on as with a filename from
\* MetafitsNames.)
StrlenOutcomes(p) == IF p.isNull THEN {NONE, 0} ELSE {strlen(p)}

\* args.c:119-132: clear the message, then the two presence checks
PA_Check ==
    /\ pc = "pa_check"
    /\ \E n \in StrlenOutcomes(args.metafits_filename) :
          IF n = NONE
          THEN /\ Crash
               /\ errorMessage' = EmptyMessage
               /\ errExtent' = MWALIB_ERROR_MESSAGE_LEN
          ELSE IF n = 0
          THEN /\ errorMessage' = snprintf("Metafits filename missing", <<>>, 0)
               /\ errExtent' = MWALIB_ERROR_MESSAGE_LEN
               /\ Return(EXIT_FAILURE)
          ELSE IF gpubox_filename_count(args) = 0
          THEN /\ errorMessage' =
                      snprintf("gpubox / mwax fits files missing", <<>>, 0)
               /\ errExtent' = MWALIB_ERROR_MESSAGE_LEN
               /\ Return(EXIT_FAILURE)
          ELSE /\ errorMessage' = EmptyMessage
               /\ errExtent' = MWALIB_ERROR_MESSAGE_LEN
               /\ pc' = "pa_copy_metafits"
               /\ UNCHANGED rc
    /\ UNCHANGED <<entry, args, obs, heap, handles, hdu, world, loc, ret>>

\* the text get_fits_string_value leaves when cfitsio cannot read the keyword:
\* the status text of length n, then " (<keyword>)" appended by sprintf
KeywordFailure(n, suffix) == sprintf_append(fits_get_errstatus(n), suffix)

\* args.c:134-143: copy the metafits filename into obs
PA_CopyMetafits ==
    /\ pc = "pa_copy_metafits"
    /\ \E ok \in BOOLEAN :
          IF ~ok
          THEN /\ Return(EXIT_FAILURE)
               /\ obs' = [obs EXCEPT !.metafits_filename = NULL]
               /\ UNCHANGED heap
          ELSE /\ obs' = [obs EXCEPT !.metafits_filename = args.metafits_filename]
               /\ heap' = heap \cup {<<"obs->metafits_filename", 0>>}
               /\ pc' = "pa_open_metafits"
               /\ UNCHANGED rc
    /\ UNCHANGED <<entry, args, errorMessage, errExtent, handles, hdu, world,
                   loc, ret>>

\* args.c:145-148 with open_fits (fitsreader.c:24-34)
PA_OpenMetafits ==
    /\ pc = "pa_open_metafits"
    /\ \/ /\ handles' = handles \cup {<<"metafits", 0>>}
          /\ pc' = "pa_obsid"
          /\ UNCHANGED <<errorMessage, errExtent, rc>>
       \/ \E n \in ErrStatusLens :
             /\ errorMessage' = fits_get_errstatus(n)
             /\ errExtent' = Extent(errExtent, errorMessage')
             /\ Return(EXIT_FAILURE)
             /\ UNCHANGED handles
    /\ UNCHANGED <<entry, args, obs, heap, hdu, world, loc, ret>>

\* the GPSTIME of the metafits
GpstimeValues == {Str(<<"7">>)}

\* args.c:150-153 with get_fits_long_value (fitsreader.c:115-126)
PA_Obsid ==
    /\ pc = "pa_obsid"
    /\ \/ \E v \in GpstimeValues :
             /\ world' = [world EXCEPT !.gpstime = v]
             /\ obs' = [obs EXCEPT !.obsid = atoi(v)]
             /\ pc' = "pa_ninputs"
             /\ UNCHANGED <<errorMessage, errExtent, rc>>
       \/ \E n \in ErrStatusLens :
             /\ errorMessage' = KeywordFailure(n, " (GPSTIME)")
             /\ errExtent' = Extent(errExtent, errorMessage')
             /\ Return(EXIT_FAILURE)
             /\ UNCHANGED <<obs, world>>
    /\ UNCHANGED <<entry, args, heap, handles, hdu, loc, ret>>

\* the NINPUTS of the metafits: twice the number of antennas
NInputsValues == {Str(<<"2">>), Str(<<"4">>), Str(<<"6">>)}

\* args.c:165-166: num_inputs /= 2; num_baselines = num_inputs / 2 * (num_inputs - 1)
NumBaselines(num_inputs) ==
    LET n == num_inputs \div 2
    IN  (n \div 2) * (n - 1)

\* args.c:155-166 with get_fits_int_value (fitsreader.c:102-113)
PA_NumInputs ==
    /\ pc = "pa_ninputs"
    /\ \/ \E v \in NInputsValues :
             /\ world' = [world EXCEPT !.ninputs = v]
             /\ obs' = [obs EXCEPT !.num_pols = 4,
                                   !.num_baselines = NumBaselines(atoi(v))]
             /\ pc' = "pa_alloc_gpubox"
             /\ UNCHANGED <<errorMessage, errExtent, rc>>
       \/ \E n \in ErrStatusLens :
             /\ errorMessage' = KeywordFailure(n, " (NINPUTS)")
             /\ errExtent' = Extent(errExtent, errorMessage')
             /\ obs' = [obs EXCEPT !.num_pols = 4]
             /\ Return(EXIT_FAILURE)
             /\ UNCHANGED world
    /\ UNCHANGED <<entry, args, heap, handles, hdu, loc, ret>>

\* args.c:168-180: the two arrays of gpubox_filename_count elements
PA_AllocGpubox ==
    /\ pc = "pa_alloc_gpubox"
    /\ LET n == gpubox_filename_count(args)
       IN  \E ok1 \in BOOLEAN, ok2 \in BOOLEAN :
              IF ~ok1
              THEN /\ obs' = [obs EXCEPT !.gpubox_filename_count = n]
                   /\ errorMessage' =
                          snprintf("malloc failed for obs->gpubox_filenames", <<>>, 0)
                   /\ errExtent' = Extent(errExtent, errorMessage')
                   /\ Return(EXIT_FAILURE)
                   /\ UNCHANGED <<heap, loc>>
              ELSE IF ~ok2
              THEN /\ obs' = [obs EXCEPT !.gpubox_filename_count = n,
                                         !.gpubox_filenames = Array(n, NULL)]
                   /\ heap' = heap \cup {<<"obs->gpubox_filenames", 0>>}
                   /\ errorMessage' =
                          snprintf("malloc failed for obs->gpubox_ptrs", <<>>, 0)
                   /\ errExtent' = Extent(errExtent, errorMessage')
                   /\ Return(EXIT_FAILURE)
                   /\ UNCHANGED loc
              ELSE /\ obs' = [obs EXCEPT !.gpubox_filename_count = n,
                                         !.gpubox_filenames = Array(n, NULL),
                                         !.gpubox_ptrs = Array(n, "uninit")]
                   /\ heap' = heap \cup {<<"obs->gpubox_filenames", 0>>,
                                         <<"obs->gpubox_ptrs", 0>>}
                   /\ loc' = [loc EXCEPT !.i = 0]
                   /\ pc' = "pa_gpubox_loop"
                   /\ UNCHANGED <<errorMessage, errExtent, rc>>
    /\ UNCHANGED <<entry, args, handles, hdu, world, ret>>

\* args.c:182-194: one turn of the loop that copies a name and opens the file
PA_OpenGpubox ==
    /\ pc = "pa_gpubox_loop"
    /\ loc.i < obs.gpubox_filename_count
    /\ LET i == loc.i
           name == args.gpubox_filenames[i + 1]
       IN  \/ /\ errorMessage' =
                     snprintf("malloc failed for obs->gpubox_filenames[%d]",
                              <<i>>, DecLen(i))
              /\ errExtent' = Extent(errExtent, errorMessage')
              /\ Return(EXIT_FAILURE)
              /\ UNCHANGED <<obs, heap, handles, hdu, world, loc>>
           \/ \E n \in ErrStatusLens :
                 /\ obs' = [obs EXCEPT !.gpubox_filenames[i] = name]
                 /\ heap' = heap \cup {<<"obs->gpubox_filenames[]", i>>}
                 /\ errorMessage' = fits_get_errstatus(n)
                 /\ errExtent' = Extent(errExtent, errorMessage')
                 /\ Return(EXIT_FAILURE)
                 /\ UNCHANGED <<handles, hdu, world, loc>>
           \/ /\ obs' = [obs EXCEPT !.gpubox_filenames[i] = name,
                                    !.gpubox_ptrs[i] = "open"]
              /\ heap' = heap \cup {<<"obs->gpubox_filenames[]", i>>}
              /\ handles' = handles \cup {<<"gpubox", i>>}
              /\ hdu' = (i :> 1) @@ hdu
              /\ world' = [world EXCEPT !.hdus = (i :> 0) @@ @,
                                        !.time = (i :> NothingRead) @@ @]
              /\ loc' = [loc EXCEPT !.i = i + 1]
              /\ UNCHANGED <<pc, errorMessage, errExtent, rc>>
    /\ UNCHANGED <<entry, args, ret>>

\* args.c:196-197: the loop is over; call determine_gpubox_batches
PA_CallBatches ==
    /\ pc = "pa_gpubox_loop"
    /\ loc.i >= obs.gpubox_filename_count
    /\ pc' = "dgb_begin"
    /\ UNCHANGED <<entry, args, obs, errorMessage, errExtent, heap, handles,
                   hdu, world, loc, ret, rc>>

(***************************************************************************)
(* determine_gpubox_batches (src/lib/src/gpubox.c:89-206).                 *)
(***************************************************************************)
\* the callee returns v to its caller
CalleeReturn(v, at) == ret' = v /\ pc' = at /\ UNCHANGED rc

\* gpubox.c:108-112 (and 194-198): the count left by the two sscanf calls.
\* The old format is tried only when the new one did not convert four ints.
ScanCount(name) ==
    LET c4 == sscanf(name, FmtNew).count
    IN  IF c4 # 4 THEN sscanf(name, FmtOld).count ELSE c4

\* the local batch after the sscanf calls: assigned only by a fourth conversion
ScanBatch(name, batch) ==
    LET r == sscanf(name, FmtNew)
    IN  IF Len(r.vals) >= 4 THEN r.vals[4] ELSE batch

\* gpubox.c:125-142: the format after a file with this count (0: not yet set,
\* 1: old, 2: new), and whether the file disagrees with the format already set
NextFormat(format, count) ==
    IF format # 0 THEN format
    ELSE IF count = 3 THEN 1
    ELSE IF count = 4 THEN 2
    ELSE 0

FormatDisagrees(format, count) ==
    /\ format # 0
    /\ (count = 3 /\ format # 1) \/ (count = 4 /\ format # 2)

\* a comparison that leaves batch 1 out; the property of the batch counts
\* must tell it from the comparison of gpubox.c:178
SkipsBatchOne(batch_counts, i) ==
    i > 1 /\ batch_counts[i] # batch_counts[0]

\* gpubox.c:178: batch i does not hold as many files as batch 0
BatchCountsMismatch(batch_counts, i) ==
    i > 0 /\ batch_counts[i] # batch_counts[0]

\* one batch's array of pointers into gpubox_filenames / gpubox_ptrs: each
\* element is the index of the file it points at
NullBatch == [isNull |-> TRUE, elems |-> <<>>]

NewBatch(n) == [isNull |-> FALSE, elems |-> Array(n, UNINIT)]

\* gpubox.c:95-103: the locals, and calloc of batch_counts (not checked)
DGB_Begin ==
    /\ pc = "dgb_begin"
    /\ obs' = [obs EXCEPT !.gpubox_batch_count = 0]
    /\ \E ok \in BOOLEAN :
          IF ok
          THEN /\ loc' = [loc EXCEPT !.i = 0, !.format = 0, !.batch = 0,
                              !.batch_counts = Array(MWALIB_MAX_GPUBOX_BATCHES, 0)]
               /\ heap' = heap \cup {<<"batch_counts", 0>>}
          ELSE /\ loc' = [loc EXCEPT !.i = 0, !.format = 0, !.batch = 0,
                              !.batch_counts = <<>>]
               /\ UNCHANGED heap
    /\ pc' = "dgb_scan"
    /\ UNCHANGED <<entry, args, errorMessage, errExtent, handles, hdu, world,
                   ret, rc>>

\* gpubox.c:107-143: one turn of the loop over the filenames.
\* batch_counts[batch]++ with batch_counts NULL is a store through a null
\* pointer (the process dies); with batch outside the array it is a store
\* outside the allocation: the process dies or goes on with the array as it was.
DGB_ScanFile ==
    /\ pc = "dgb_scan"
    /\ loc.i < obs.gpubox_filename_count
    /\ LET i == loc.i
           name == obs.gpubox_filenames[i]
           count == ScanCount(name)
           batch == ScanBatch(name, loc.batch)
           inside == batch \in DOMAIN loc.batch_counts
       IN  IF count # 4 /\ count # 3
           THEN /\ errorMessage' =
                       snprintf("Failed to determine the gpubox batch number for %s",
                                <<i>>, strlen(name))
                /\ errExtent' = Extent(errExtent, errorMessage')
                /\ loc' = [loc EXCEPT !.batch = batch]
                /\ CalleeReturn(EXIT_FAILURE, "dgb_ret")
                /\ UNCHANGED obs
           ELSE \E survive \in BOOLEAN :
                IF loc.batch_counts = <<>> \/ (~inside /\ ~survive)
                THEN /\ Crash
                     /\ UNCHANGED <<obs, loc, errorMessage, errExtent, ret>>
                ELSE /\ obs' = [obs EXCEPT !.gpubox_batch_count =
                                   IF count = 4 /\ batch > @ THEN batch ELSE @]
                     /\ IF FormatDisagrees(loc.format, count)
                        THEN /\ errorMessage' =
                                    snprintf("The batch number format of %s disagrees with other gpubox files!",
                                             <<i>>, strlen(name))
                             /\ errExtent' = Extent(errExtent, errorMessage')
                             /\ loc' = [loc EXCEPT
                                   !.batch = batch,
                                   !.batch_counts = IF inside
                                       THEN [@ EXCEPT ![batch] = @ + 1] ELSE @]
                             /\ CalleeReturn(EXIT_FAILURE, "dgb_ret")
                        ELSE /\ loc' = [loc EXCEPT
                                   !.i = i + 1,
                                   !.batch = batch,
                                   !.format = NextFormat(@, count),
                                   !.batch_counts = IF inside
                                       THEN [@ EXCEPT ![batch] = @ + 1] ELSE @]
                             /\ UNCHANGED <<pc, errorMessage, errExtent, ret, rc>>
    /\ UNCHANGED <<entry, args, heap, handles, hdu, world>>

\* gpubox.c:144-159: batch count + 1, and the two arrays of batch pointers
DGB_AllocTop ==
    /\ pc = "dgb_scan"
    /\ loc.i >= obs.gpubox_filename_count
    /\ LET n == obs.gpubox_batch_count + 1
       IN  \E ok1 \in BOOLEAN, ok2 \in BOOLEAN :
              /\ obs' = [obs EXCEPT
                    !.gpubox_batch_count = n,
                    !.gpubox_filename_batches = IF ok1 THEN Array(n, NullBatch) ELSE <<>>,
                    !.gpubox_ptr_batches = IF ok2 THEN Array(n, NullBatch) ELSE <<>>]
              /\ heap' = heap
                   \cup (IF ok1 THEN {<<"obs->gpubox_filename_batches", 0>>} ELSE {})
                   \cup (IF ok2 THEN {<<"obs->gpubox_ptr_batches", 0>>} ELSE {})
              /\ IF ~ok1
                 THEN /\ errorMessage' =
                             snprintf("malloc failed for obs->gpubox_filename_batches", <<>>, 0)
                      /\ errExtent' = Extent(errExtent, errorMessage')
                      /\ CalleeReturn(EXIT_FAILURE, "dgb_ret")
                      /\ UNCHANGED loc
                 ELSE IF ~ok2
                 THEN /\ errorMessage' =
                             snprintf("malloc failed for obs->gpubox_ptr_batches", <<>>, 0)
                      /\ errExtent' = Extent(errExtent, errorMessage')
                      /\ CalleeReturn(EXIT_FAILURE, "dgb_ret")
                      /\ UNCHANGED loc
                 ELSE /\ loc' = [loc EXCEPT !.i = 0]
                      /\ pc' = "dgb_alloc_batch"
                      /\ UNCHANGED <<errorMessage, errExtent, ret, rc>>
    /\ UNCHANGED <<entry, args, handles, hdu, world>>

\* batch_counts[i] as a read gives it: outside the array it is whatever
\* lies there
ReadCount(batch_counts, i) ==
    IF i \in DOMAIN batch_counts THEN {batch_counts[i]}
    ELSE (0 - MaxGarbage) .. MaxGarbage

\* gpubox.c:161-184: one turn of the loop that allocates a batch's arrays and
\* compares its count with batch 0's.  Line 172 tests gpubox_ptr_batches, not
\* gpubox_ptr_batches[i]: a failed malloc of the latter goes unnoticed.  A
\* negative count is a size no malloc grants.
DGB_AllocBatch ==
    /\ pc = "dgb_alloc_batch"
    /\ loc.i < obs.gpubox_batch_count
    /\ LET i == loc.i
       IN  \E n \in ReadCount(loc.batch_counts, i), ok1 \in BOOLEAN, ok2 \in BOOLEAN :
              /\ n < 0 => ~ok1 /\ ~ok2
              /\ obs' = [obs EXCEPT
                    !.gpubox_filename_batches[i] = IF ok1 THEN NewBatch(n) ELSE NullBatch,
                    !.gpubox_ptr_batches[i] = IF ok2 THEN NewBatch(n) ELSE NullBatch]
              /\ heap' = heap
                   \cup (IF ok1 THEN {<<"obs->gpubox_filename_batches[]", i>>} ELSE {})
                   \cup (IF ok2 THEN {<<"obs->gpubox_ptr_batches[]", i>>} ELSE {})
              /\ IF ~ok1
                 THEN /\ errorMessage' =
                             snprintf("malloc failed for obs->gpubox_filename_batches[%d] (batch count = %d)",
                                      <<i, n>>, DecLen(i) + DecLen(n))
                      /\ errExtent' = Extent(errExtent, errorMessage')
                      /\ CalleeReturn(EXIT_FAILURE, "dgb_ret")
                      /\ UNCHANGED loc
                 ELSE IF BatchCountsMismatch((i :> n) @@ loc.batch_counts, i)
                 THEN /\ errorMessage' =
                             snprintf("The batch number counts do not match! (%d for 00, %d for %02d)",
                                      <<loc.batch_counts[0], n, i>>,
                                      DecLen(loc.batch_counts[0]) + DecLen(n)
                                          + Max(2, DecLen(i)))
                      /\ errExtent' = Extent(errExtent, errorMessage')
                      /\ CalleeReturn(EXIT_FAILURE, "dgb_ret")
                      /\ UNCHANGED loc
                 ELSE /\ loc' = [loc EXCEPT !.i = i + 1]
                      /\ UNCHANGED <<pc, errorMessage, errExtent, ret, rc>>
    /\ UNCHANGED <<entry, args, handles, hdu, world>>

\* gpubox.c:186-192: the counts of the batches in use go back to 0.  With
\* more batches than batch_counts has elements the loop stores outside the
\* allocation: the process dies, or goes on with those stores lost.
DGB_ResetCounts ==
    /\ pc = "dgb_alloc_batch"
    /\ loc.i >= obs.gpubox_batch_count
    /\ \/ /\ loc' = [loc EXCEPT
                !.i = 0,
                !.batch_counts = [b \in DOMAIN @ |->
                                     IF b < obs.gpubox_batch_count THEN 0 ELSE @[b]]]
          /\ pc' = "dgb_populate"
          /\ UNCHANGED rc
       \/ /\ obs.gpubox_batch_count > MWALIB_MAX_GPUBOX_BATCHES
          /\ Crash
          /\ UNCHANGED loc
    /\ UNCHANGED <<entry, args, obs, errorMessage, errExtent, heap, handles,
                   hdu, world, ret>>

\* the loop that fills the batch arrays, were the depth of a batch not
\* advanced: every file of a batch goes to its first slot
PopulateSameSlot ==
    /\ pc = "dgb_populate"
    /\ loc.i < obs.gpubox_filename_count
    /\ LET i == loc.i
           name == obs.gpubox_filenames[i]
           batch == ScanBatch(name, loc.batch)
           k == loc.batch_counts[batch]
       IN  IF obs.gpubox_ptr_batches[batch].isNull
           THEN /\ Crash
                /\ obs' = [obs EXCEPT !.gpubox_filename_batches[batch].elems[k] = i]
                /\ UNCHANGED loc
           ELSE /\ obs' = [obs EXCEPT
                      !.gpubox_filename_batches[batch].elems[k] = i,
                      !.gpubox_ptr_batches[batch].elems[k] = i]
                /\ loc' = [loc EXCEPT !.i = i + 1, !.batch = batch]
                /\ UNCHANGED <<pc, rc>>
    /\ UNCHANGED <<entry, args, errorMessage, errExtent, heap, handles, hdu,
                   world, ret>>

\* gpubox.c:193-202: one turn of the loop that fills the batch arrays.  A
\* batch whose gpubox_ptr_batches[batch] is NULL makes line 200 a store
\* through a null pointer.  A batch number outside the arrays of batch
\* pointers makes lines 199-200 stores through whatever lies there, a
\* depth outside the batch's array makes them stores outside it: the process
\* dies, or goes on with the stores lost.
DGB_PopulateFile ==
    /\ pc = "dgb_populate"
    /\ loc.i < obs.gpubox_filename_count
    /\ LET i == loc.i
           name == obs.gpubox_filenames[i]
           batch == ScanBatch(name, loc.batch)
           counted == [loc EXCEPT
                          !.i = i + 1, !.batch = batch,
                          !.batch_counts = IF batch \in DOMAIN @
                                           THEN [@ EXCEPT ![batch] = @ + 1] ELSE @]
       IN  \E k \in ReadCount(loc.batch_counts, batch) :
           IF batch \notin DOMAIN obs.gpubox_ptr_batches
                  \/ k \notin DOMAIN obs.gpubox_filename_batches[batch].elems
           THEN \/ /\ Crash
                   /\ UNCHANGED <<obs, loc>>
                \/ /\ batch \in DOMAIN obs.gpubox_ptr_batches
                         => ~obs.gpubox_ptr_batches[batch].isNull
                   /\ loc' = counted
                   /\ UNCHANGED <<obs, pc, rc>>
           ELSE IF obs.gpubox_ptr_batches[batch].isNull
           THEN /\ Crash
                /\ obs' = [obs EXCEPT !.gpubox_filename_batches[batch].elems[k] = i]
                /\ UNCHANGED loc
           ELSE /\ obs' = [obs EXCEPT
                      !.gpubox_filename_batches[batch].elems[k] = i,
                      !.gpubox_ptr_batches[batch].elems[k] = i]
                /\ loc' = counted
                /\ UNCHANGED <<pc, rc>>
    /\ UNCHANGED <<entry, args, errorMessage, errExtent, heap, handles, hdu,
                   world, ret>>

\* gpubox.c:203-205: free(batch_counts) and return
DGB_Return ==
    /\ pc = "dgb_populate"
    /\ loc.i >= obs.gpubox_filename_count
    /\ heap' = heap \ {<<"batch_counts", 0>>}
    /\ loc' = [loc EXCEPT !.batch_counts = <<>>]
    /\ CalleeReturn(EXIT_SUCCESS, "dgb_ret")
    /\ UNCHANGED <<entry, args, obs, errorMessage, errExtent, handles, hdu,
                   world>>

\* args.c:197-200: back in process_args
PA_AfterBatches ==
    /\ pc = "dgb_ret"
    /\ entry = "process_args"
    /\ IF ret # EXIT_SUCCESS
       THEN /\ errorMessage' =
                   sprintf_append(errorMessage, " (determine_gpubox_batches)")
            /\ errExtent' = Extent(errExtent, errorMessage')
            /\ Return(EXIT_FAILURE)
       ELSE /\ pc' = "pa_channels"
            /\ UNCHANGED <<errorMessage, errExtent, rc>>
    /\ UNCHANGED <<entry, args, obs, heap, handles, hdu, world, loc, ret>>

(***************************************************************************)
(* get_fits_comma_delimited_ints (src/lib/src/fitsreader.c:167-202).       *)
(***************************************************************************)
IsDelimiter(c) == c \in {" ", ",", "@"}

RECURSIVE Tokens(_, _, _, _)
\* the strsep loop: the tokens of s from position p on, cur the characters of
\* the token under way.  Two delimiters in a row give an empty token.
Tokens(s, p, cur, acc) ==
    IF p > strlen(s) THEN Append(acc, Str(cur))
    ELSE IF IsDelimiter(CharAt(s, p)) THEN Tokens(s, p + 1, <<>>, Append(acc, Str(cur)))
    ELSE Tokens(s, p + 1, Append(cur, CharAt(s, p)), acc)

strsep_all(s) == Tokens(s, 1, <<>>, <<>>)

FmtIntChar == <<"%d", "%*c">>

RECURSIVE ParseInts(_, _, _)
\* fitsreader.c:191-199: the integers converted from tokens k.. until one
\* fails: [ok, vals]
ParseInts(tokens, k, vals) ==
    IF k > Len(tokens) THEN [ok |-> TRUE, vals |-> vals]
    ELSE LET r == sscanf(tokens[k], FmtIntChar)
         IN  IF r.count # 1 THEN [ok |-> FALSE, vals |-> vals]
             ELSE ParseInts(tokens, k + 1, Append(vals, r.vals[1]))

\* the CHANNELS of the metafits, and the size of the buffer it is read into
ChannelsValues ==
    {Str(<<"1">>), Str(<<"1", ",", "2">>), Str(<<"1", ",", "2", ",", "3">>),
     Str(<<"1", ",", "x">>), Padded(<<"1">>, MWALIB_ERROR_MESSAGE_LEN)}

CoarseChannelStringSize == 1023

\* the values an uninitialised int may be read as
Garbage == (0 - MaxGarbage) .. MaxGarbage

\* int_array[first .. first + n - 1], written from vals
StoreInts(int_array, first, vals) ==
    [k \in DOMAIN int_array |->
        IF k >= first /\ k < first + Len(vals) THEN vals[k - first + 1]
        ELSE int_array[k]]

\* args.c:202-218 with get_fits_comma_delimited_ints.  *int_count is
\* obs->num_coarse_channels, which nothing has set: the count starts from
\* whatever it is read as, and a store outside int_array kills the process or
\* is lost.
PA_Channels ==
    /\ pc = "pa_channels"
    /\ \E ok1 \in BOOLEAN, ok2 \in BOOLEAN :
          LET allocated ==
                  heap \cup (IF ok1 THEN {<<"coarse_channel_string", 0>>} ELSE {})
                       \cup (IF ok2 THEN {<<"obs->coarse_channels", 0>>} ELSE {})
              array == IF ok2 THEN Array(MWALIB_MAX_COARSE_CHANNELS, UNINIT) ELSE <<>>
          IN  IF ~ok1
              THEN /\ heap' = allocated
                   /\ obs' = [obs EXCEPT !.coarse_channels = array]
                   /\ errorMessage' =
                          snprintf("malloc failed for coarse_channel_string", <<>>, 0)
                   /\ errExtent' = Extent(errExtent, errorMessage')
                   /\ Return(EXIT_FAILURE)
                   /\ UNCHANGED world
              ELSE IF ~ok2
              THEN /\ heap' = allocated
                   /\ obs' = [obs EXCEPT !.coarse_channels = array]
                   /\ errorMessage' =
                          snprintf("malloc failed for obs->coarse_channels", <<>>, 0)
                   /\ errExtent' = Extent(errExtent, errorMessage')
                   /\ Return(EXIT_FAILURE)
                   /\ UNCHANGED world
              ELSE \/ \E n \in ErrStatusLens :
                         /\ heap' = allocated
                         /\ obs' = [obs EXCEPT !.coarse_channels = array]
                         /\ errorMessage' = KeywordFailure(n, " (CHANNELS)")
                         /\ errExtent' = Extent(errExtent, errorMessage')
                         /\ Return(EXIT_FAILURE)
                         /\ UNCHANGED world
                   \/ \E v \in ChannelsValues, g \in Garbage, survive \in BOOLEAN :
                         LET r == ParseInts(strsep_all(v), 1, <<>>)
                             first == IF obs.num_coarse_channels = UNINIT
                                      THEN g ELSE obs.num_coarse_channels
                             last == first + Len(r.vals)
                             inside == first >= 0 /\ last <= MWALIB_MAX_COARSE_CHANNELS
                         IN  /\ world' = [world EXCEPT !.channels = v,
                                                       !.garbage = first]
                             /\ IF strlen(v) > CoarseChannelStringSize
                                THEN /\ heap' = allocated
                                     /\ obs' = [obs EXCEPT !.coarse_channels = array]
                                     /\ errorMessage' =
                                            snprintf("cfitsio-read long string associated with fits key %s is too long for supplied input string (size: %d) (get_fits_comma_delimited_ints)",
                                                     <<CoarseChannelStringSize>>,
                                                     8 + DecLen(CoarseChannelStringSize))
                                     /\ errExtent' = Extent(errExtent, errorMessage')
                                     /\ Return(EXIT_FAILURE)
                                ELSE IF ~inside /\ ~survive
                                THEN /\ heap' = allocated
                                     /\ obs' = [obs EXCEPT !.coarse_channels = array]
                                     /\ Crash
                                     /\ UNCHANGED <<errorMessage, errExtent>>
                                ELSE IF ~r.ok
                                THEN /\ heap' = allocated
                                     /\ obs' = [obs EXCEPT
                                           !.coarse_channels = StoreInts(array, first, r.vals),
                                           !.num_coarse_channels = last]
                                     /\ errorMessage' =
                                            snprintf("Failed to parse int from string in fits file (get_fits_comma_delimited_ints)",
                                                     <<>>, 0)
                                     /\ errExtent' = Extent(errExtent, errorMessage')
                                     /\ Return(EXIT_FAILURE)
                                ELSE /\ heap' = allocated \ {<<"coarse_channel_string", 0>>}
                                     /\ obs' = [obs EXCEPT
                                           !.coarse_channels = StoreInts(array, first, r.vals),
                                           !.num_coarse_channels = last]
                                     /\ pc' = "pa_check_count"
                                     /\ UNCHANGED <<errorMessage, errExtent, rc>>
    /\ UNCHANGED <<entry, args, handles, hdu, loc, ret>>

\* a comparison that lets through more channels than files; the property of
\* the channel count must tell it from the comparison of args.c:223
OnlyTooFewChannels(o) ==
    o.gpubox_filename_count \div o.gpubox_batch_count > o.num_coarse_channels

\* args.c:223: the files of one batch are not as many as the coarse channels
ChannelCountMismatch(o) ==
    o.gpubox_filename_count \div o.gpubox_batch_count # o.num_coarse_channels

\* args.c:220-228
PA_CheckCount ==
    /\ pc = "pa_check_count"
    /\ IF ChannelCountMismatch(obs)
       THEN /\ errorMessage' =
                   snprintf("The number of gpubox files does not match the number of coarse-band channels specified by the metafits!",
                            <<>>, 0)
            /\ errExtent' = Extent(errExtent, errorMessage')
            /\ Return(EXIT_FAILURE)
       ELSE /\ pc' = "pa_fine"
            /\ UNCHANGED <<errorMessage, errExtent, rc>>
    /\ UNCHANGED <<entry, args, obs, heap, handles, hdu, world, loc, ret>>

(***************************************************************************)
(* determine_gpubox_fine_channels (src/lib/src/gpubox.c:56-76).            *)
(***************************************************************************)
\* move_to_fits_hdu's text when fits_movabs_hdu fails
MoveFailure(n) == sprintf_append(fits_get_errstatus(n), " (move_to_fits_hdu)")

\* the NAXIS2 of a gpubox file's second HDU
Naxis2Values == {Str(<<"8">>)}

\* determine_gpubox_fine_channels, were file 0 left at the HDU NAXIS2 is
\* read from
FineChannelsStayAtTwo ==
    /\ pc = "pa_fine"
    /\ \E h \in HdusChoices(world, 0), n \in ErrStatusLens :
          \/ /\ h < 2
             /\ errorMessage' = sprintf_append(MoveFailure(n),
                                    " (determine_gpubox_fine_channels)")
             /\ errExtent' = Extent(errExtent, errorMessage')
             /\ world' = [world EXCEPT !.hdus[0] = h]
             /\ Return(EXIT_FAILURE)
             /\ UNCHANGED hdu
          \/ /\ h >= 2
             /\ errorMessage' = sprintf_append(KeywordFailure(n, " (NAXIS2)"),
                                    " (determine_gpubox_fine_channels)")
             /\ errExtent' = Extent(errExtent, errorMessage')
             /\ world' = [world EXCEPT !.hdus[0] = h]
             /\ hdu' = [hdu EXCEPT ![0] = 2]
             /\ Return(EXIT_FAILURE)
          \/ /\ h >= 2
             /\ errorMessage' = sprintf_append(MoveFailure(n),
                                    " (determine_gpubox_fine_channels)")
             /\ errExtent' = Extent(errExtent, errorMessage')
             /\ \E v \in Naxis2Values :
                   world' = [world EXCEPT !.hdus[0] = h, !.naxis2 = v]
             /\ hdu' = [hdu EXCEPT ![0] = 2]
             /\ Return(EXIT_FAILURE)
          \/ /\ h >= 2
             /\ \E v \in Naxis2Values :
                   world' = [world EXCEPT !.hdus[0] = h, !.naxis2 = v]
             /\ hdu' = [hdu EXCEPT ![0] = 2]
             /\ pc' = "dot_begin"
             /\ UNCHANGED <<errorMessage, errExtent, rc>>
    /\ UNCHANGED <<entry, args, obs, heap, handles, loc, ret>>

\* args.c:230-234 with determine_gpubox_fine_channels: gpubox file 0 goes to
\* HDU 2, NAXIS2 is read into the local numFineChannels, the file goes back
\* to HDU 1
PA_FineChannels ==
    /\ pc = "pa_fine"
    /\ \E h \in HdusChoices(world, 0), n \in ErrStatusLens :
          \/ /\ h < 2
             /\ errorMessage' = sprintf_append(MoveFailure(n),
                                    " (determine_gpubox_fine_channels)")
             /\ errExtent' = Extent(errExtent, errorMessage')
             /\ world' = [world EXCEPT !.hdus[0] = h]
             /\ Return(EXIT_FAILURE)
             /\ UNCHANGED hdu
          \/ /\ h >= 2
             /\ errorMessage' = sprintf_append(KeywordFailure(n, " (NAXIS2)"),
                                    " (determine_gpubox_fine_channels)")
             /\ errExtent' = Extent(errExtent, errorMessage')
             /\ world' = [world EXCEPT !.hdus[0] = h]
             /\ hdu' = [hdu EXCEPT ![0] = 2]
             /\ Return(EXIT_FAILURE)
          \/ /\ h >= 2
             /\ errorMessage' = sprintf_append(MoveFailure(n),
                                    " (determine_gpubox_fine_channels)")
             /\ errExtent' = Extent(errExtent, errorMessage')
             /\ \E v \in Naxis2Values :
                   world' = [world EXCEPT !.hdus[0] = h, !.naxis2 = v]
             /\ hdu' = [hdu EXCEPT ![0] = 2]
             /\ Return(EXIT_FAILURE)
          \/ /\ h >= 2
             /\ \E v \in Naxis2Values :
                   world' = [world EXCEPT !.hdus[0] = h, !.naxis2 = v]
             /\ hdu' = [hdu EXCEPT ![0] = 1]
             /\ pc' = "dot_begin"
             /\ UNCHANGED <<errorMessage, errExtent, rc>>
    /\ UNCHANGED <<entry, args, obs, heap, handles, loc, ret>>

(***************************************************************************)
(* determine_obs_times (src/lib/src/gpubox.c:219-308).                     *)
(***************************************************************************)
\* the TIME and MILLITIM a HDU of a gpubox file may hold
TimeValues ==
    {[known |-> TRUE, TIME |-> Str(<<"0">>), MILLITIM |-> Str(<<"0">>)],
     [known |-> TRUE, TIME |-> Str(<<"0">>), MILLITIM |-> Str(<<"5">>)],
     [known |-> TRUE, TIME |-> Str(<<"1">>), MILLITIM |-> Str(<<"0">>)]}

\* gpubox.c:266 and 295: seconds and milliseconds as one number of milliseconds
Milliseconds(t) == atoi(t.TIME) * 1000 + atoi(t.MILLITIM)

\* gpubox.c:267-269
NewStartTime(start, this_start_time) ==
    IF this_start_time > start THEN this_start_time ELSE start

\* gpubox.c:296-298
NewEndTime(end, this_end_time) ==
    IF end = 0 \/ this_end_time < end THEN this_end_time ELSE end

\* what a read of TIME/MILLITIM at HDU h of file f may give, given what has
\* been read so far
TimeChoices(w, f, h) ==
    IF w.time[f][h].known THEN {w.time[f][h]} ELSE TimeValues

\* gpubox.c:242-250
DOT_Begin ==
    /\ pc = "dot_begin"
    /\ obs' = [obs EXCEPT !.start_time_milliseconds = 0,
                          !.end_time_milliseconds = 0]
    /\ loc' = [loc EXCEPT !.i = 0]
    /\ pc' = "dot_loop"
    /\ UNCHANGED <<entry, args, errorMessage, errExtent, heap, handles, hdu,
                   world, ret, rc>>

\* the steps of one turn of the loop at which a cfitsio call may fail
DotFailures ==
    {"TIME", "MILLITIM", "hdu_count", "move_last", "TIME_last", "MILLITIM_last",
     "move_back", "none"}

\* gpubox.c:251-305: one turn of the loop, for file i of the first batch and
\* file i of the last batch
DOT_Iter ==
    /\ pc = "dot_loop"
    /\ loc.i < obs.gpubox_filename_count \div obs.gpubox_batch_count
    /\ LET f0 == obs.gpubox_ptr_batches[0].elems[loc.i]
           fl == obs.gpubox_ptr_batches[obs.gpubox_batch_count - 1].elems[loc.i]
           h0 == hdu[f0]
       IN  \E failAt \in DotFailures, n \in ErrStatusLens,
              t0 \in TimeChoices(world, f0, h0), hl \in HdusChoices(world, fl) :
              LET w0 == [world EXCEPT !.time[f0][h0] = t0,
                                      !.readAt = (f0 :> h0) @@ @]
                  w1 == [w0 EXCEPT !.hdus[fl] = hl]
                  start == NewStartTime(obs.start_time_milliseconds, Milliseconds(t0))
              IN  \E tl \in TimeChoices(w1, fl, hl) :
                  LET wl == [w1 EXCEPT !.time[fl][hl] = tl]
                      end == NewEndTime(obs.end_time_milliseconds, Milliseconds(tl))
                  IN  CASE failAt = "TIME" ->
                             /\ errorMessage' = KeywordFailure(n, " (TIME)")
                             /\ errExtent' = Extent(errExtent, errorMessage')
                             /\ CalleeReturn(EXIT_FAILURE, "dot_ret")
                             /\ UNCHANGED <<obs, hdu, world, loc>>
                        [] failAt = "MILLITIM" ->
                             /\ errorMessage' = KeywordFailure(n, " (MILLITIM)")
                             /\ errExtent' = Extent(errExtent, errorMessage')
                             /\ world' = w0
                             /\ CalleeReturn(EXIT_FAILURE, "dot_ret")
                             /\ UNCHANGED <<obs, hdu, loc>>
                        [] failAt = "hdu_count" ->
                             /\ errorMessage' = sprintf_append(fits_get_errstatus(n),
                                                    " (get_fits_hdu_count)")
                             /\ errExtent' = Extent(errExtent, errorMessage')
                             /\ world' = w0
                             /\ obs' = [obs EXCEPT !.start_time_milliseconds = start]
                             /\ CalleeReturn(EXIT_FAILURE, "dot_ret")
                             /\ UNCHANGED <<hdu, loc>>
                        [] failAt = "move_last" ->
                             /\ errorMessage' = MoveFailure(n)
                             /\ errExtent' = Extent(errExtent, errorMessage')
                             /\ world' = w1
                             /\ obs' = [obs EXCEPT !.start_time_milliseconds = start]
                             /\ CalleeReturn(EXIT_FAILURE, "dot_ret")
                             /\ UNCHANGED <<hdu, loc>>
                        [] failAt = "TIME_last" ->
                             /\ errorMessage' = KeywordFailure(n, " (TIME)")
                             /\ errExtent' = Extent(errExtent, errorMessage')
                             /\ world' = w1
                             /\ obs' = [obs EXCEPT !.start_time_milliseconds = start]
                             /\ hdu' = [hdu EXCEPT ![fl] = hl]
                             /\ CalleeReturn(EXIT_FAILURE, "dot_ret")
                             /\ UNCHANGED loc
                        [] failAt = "MILLITIM_last" ->
                             /\ errorMessage' = KeywordFailure(n, " (MILLITIM)")
                             /\ errExtent' = Extent(errExtent, errorMessage')
                             /\ world' = wl
                             /\ obs' = [obs EXCEPT !.start_time_milliseconds = start]
                             /\ hdu' = [hdu EXCEPT ![fl] = hl]
                             /\ CalleeReturn(EXIT_FAILURE, "dot_ret")
                             /\ UNCHANGED loc
                        [] failAt = "move_back" ->
                             /\ errorMessage' = MoveFailure(n)
                             /\ errExtent' = Extent(errExtent, errorMessage')
                             /\ world' = wl
                             /\ obs' = [obs EXCEPT !.start_time_milliseconds = start,
                                                   !.end_time_milliseconds = end]
                             /\ hdu' = [hdu EXCEPT ![fl] = hl]
                             /\ CalleeReturn(EXIT_FAILURE, "dot_ret")
                             /\ UNCHANGED loc
                        [] failAt = "none" ->
                             /\ world' = wl
                             /\ obs' = [obs EXCEPT !.start_time_milliseconds = start,
                                                   !.end_time_milliseconds = end]
                             /\ hdu' = [hdu EXCEPT ![fl] = 1]
                             /\ loc' = [loc EXCEPT !.i = @ + 1]
                             /\ UNCHANGED <<pc, errorMessage, errExtent, ret, rc>>
    /\ UNCHANGED <<entry, args, heap, handles>>

\* gpubox.c:307
DOT_Return ==
    /\ pc = "dot_loop"
    /\ loc.i >= obs.gpubox_filename_count \div obs.gpubox_batch_count
    /\ CalleeReturn(EXIT_SUCCESS, "dot_ret")
    /\ UNCHANGED <<entry, args, obs, errorMessage, errExtent, heap, handles,
                   hdu, world, loc>>

\* args.c:236-242: back in process_args
PA_AfterTimes ==
    /\ pc = "dot_ret"
    /\ entry = "process_args"
    /\ IF ret # EXIT_SUCCESS
       THEN /\ errorMessage' = sprintf_append(errorMessage, " (determine_obs_times)")
            /\ errExtent' = Extent(errExtent, errorMessage')
            /\ Return(EXIT_FAILURE)
       ELSE /\ Return(EXIT_SUCCESS)
            /\ UNCHANGED <<errorMessage, errExtent>>
    /\ UNCHANGED <<entry, args, obs, heap, handles, hdu, world, loc, ret>>

(***************************************************************************)
(* free_mwaObsContext (src/lib/src/gpubox.c:19-43), called on the context  *)
(* that process_args has built.                                            *)
(***************************************************************************)
\* free(p) for every p of ptrs in turn: what is left of the heap, and
\* whether every p was a live allocation when it was freed
RECURSIVE FreeEach(_, _)
FreeEach(h, ptrs) ==
    IF ptrs = <<>> THEN [heap |-> h, valid |-> TRUE]
    ELSE LET rest == FreeEach(h \ {Head(ptrs)}, Tail(ptrs))
         IN  [heap |-> rest.heap, valid |-> Head(ptrs) \in h /\ rest.valid]

RECURSIVE Indexed(_, _, _)
Indexed(name, i, n) ==
    IF i >= n THEN <<>> ELSE <<(<<name, i>>)>> \o Indexed(name, i + 1, n)

\* gpubox.c:21-40: the allocations handed to free, in the order of the
\* calls (the fitsfile pointers of lines 23 and 27 apart)
FreedAllocations(o) ==
    <<(<<"obs->coarse_channels", 0>>), (<<"obs->metafits_filename", 0>>)>>
    \o Indexed("obs->gpubox_filenames[]", 0, o.gpubox_filename_count)
    \o <<(<<"obs->gpubox_filenames", 0>>), (<<"obs->gpubox_ptrs", 0>>)>>
    \o Indexed("obs->gpubox_filename_batches[]", 0, o.gpubox_batch_count)
    \o Indexed("obs->gpubox_ptr_batches[]", 0, o.gpubox_batch_count)
    \o <<(<<"obs->gpubox_filename_batches", 0>>), (<<"obs->gpubox_ptr_batches", 0>>)>>

\* gpubox.c:23 and 27: obs->metafits_ptr and every obs->gpubox_ptrs[i] go
\* to free, not to close_fits: the structure is released and no file is
\* closed.  Freeing what is not a live allocation is undefined: the
\* process dies.
FreeMwaObsContext ==
    /\ pc = "done"
    /\ rc = EXIT_SUCCESS
    /\ LET r == FreeEach(heap, FreedAllocations(obs))
       IN  /\ heap' = r.heap
           /\ IF r.valid
              THEN pc' = "freed" /\ UNCHANGED rc
              ELSE Crash
    /\ UNCHANGED <<entry, args, obs, errorMessage, errExtent, handles, hdu,
                   world, loc, ret>>

Next ==
    \/ SetMetafitsFilename
    \/ AddGpuboxFilename
    \/ CallProcessArgs
    \/ PA_Check
    \/ PA_CopyMetafits
    \/ PA_OpenMetafits
    \/ PA_Obsid
    \/ PA_NumInputs
    \/ PA_AllocGpubox
    \/ PA_OpenGpubox
    \/ PA_CallBatches
    \/ DGB_Begin
    \/ DGB_ScanFile
    \/ DGB_AllocTop
    \/ DGB_AllocBatch
    \/ DGB_ResetCounts
    \/ DGB_PopulateFile
    \/ DGB_Return
    \/ PA_AfterBatches
    \/ PA_Channels
    \/ PA_CheckCount
    \/ PA_FineChannels
    \/ DOT_Begin
    \/ DOT_Iter
    \/ DOT_Return
    \/ PA_AfterTimes
    \/ FreeMwaObsContext

Spec == Init /\ [][Next]_vars

(***************************************************************************)
(* determine_gpubox_batches on its own: it is entered in the state         *)
(* process_args calls it in (args.c:197), every file of the list open,     *)
(* with a list of names drawn from BatchNames.                             *)
(***************************************************************************)
BatchLists == UNION {[0 .. n - 1 -> BatchNames] : n \in 1 .. MaxBatchFiles}

InitBatches ==
    \E names \in BatchLists :
       LET n == Cardinality(DOMAIN names)
       IN  /\ entry = "determine_gpubox_batches"
           /\ pc = "dgb_begin"
           /\ args = [metafits_filename |-> Str(<<"m">>),
                      gpubox_filenames |-> [k \in 1 .. n |-> names[k - 1]]]
           /\ obs = [ObsUninit EXCEPT
                         !.obsid = atoi(Str(<<"7">>)),
                         !.num_pols = 4,
                         !.num_baselines = NumBaselines(atoi(Str(<<"2">>))),
                         !.metafits_filename = Str(<<"m">>),
                         !.gpubox_filename_count = n,
                         !.gpubox_filenames = names,
                         !.gpubox_ptrs = Array(n, "open")]
           /\ errorMessage = EmptyMessage
           /\ errExtent = MWALIB_ERROR_MESSAGE_LEN
           /\ heap = {<<"obs->metafits_filename", 0>>,
                      <<"obs->gpubox_filenames", 0>>, <<"obs->gpubox_ptrs", 0>>}
                     \cup {<<"obs->gpubox_filenames[]", i>> : i \in 0 .. n - 1}
           /\ handles = {<<"metafits", 0>>} \cup {<<"gpubox", i>> : i \in 0 .. n - 1}
           /\ hdu = Array(n, 1)
           /\ world = [WorldInit EXCEPT !.gpstime = Str(<<"7">>),
                                        !.ninputs = Str(<<"2">>),
                                        !.hdus = Array(n, 0),
                                        !.time = Array(n, NothingRead)]
           /\ loc = [LocInit EXCEPT !.i = n]
           /\ ret = NONE
           /\ rc = NONE

NextBatches ==
    \/ DGB_Begin
    \/ DGB_ScanFile
    \/ DGB_AllocTop
    \/ DGB_AllocBatch
    \/ DGB_ResetCounts
    \/ DGB_PopulateFile
    \/ DGB_Return

SpecBatches == InitBatches /\ [][NextBatches]_vars

\* determine_gpubox_batches on lists with batch numbers that batch_counts
\* has no element for: "1_2_gpubox01_10.fits" and "1_2_gpubox01_-1.fits"
TenName ==
    Str(<<"1", "_", "2", "_", "g", "p", "u", "b", "o", "x", "0", "1", "_",
          "1", "0", ".", "f", "i", "t", "s">>)

MinusName ==
    Str(<<"1", "_", "2", "_", "g", "p", "u", "b", "o", "x", "0", "1", "_",
          "-", "1", ".", "f", "i", "t", "s">>)

RangeNames == {NewName("0"), TenName, MinusName}

MaxRangeFiles == 2

RangeLists == UNION {[0 .. n - 1 -> RangeNames] : n \in 1 .. MaxRangeFiles}

InitBatchRange ==
    \E names \in RangeLists :
       LET n == Cardinality(DOMAIN names)
       IN  /\ entry = "determine_gpubox_batches"
           /\ pc = "dgb_begin"
           /\ args = [metafits_filename |-> Str(<<"m">>),
                      gpubox_filenames |-> [k \in 1 .. n |-> names[k - 1]]]
           /\ obs = [ObsUninit EXCEPT
                         !.obsid = atoi(Str(<<"7">>)),
                         !.num_pols = 4,
                         !.num_baselines = NumBaselines(atoi(Str(<<"2">>))),
                         !.metafits_filename = Str(<<"m">>),
                         !.gpubox_filename_count = n,
                         !.gpubox_filenames = names,
                         !.gpubox_ptrs = Array(n, "open")]
           /\ errorMessage = EmptyMessage
           /\ errExtent = MWALIB_ERROR_MESSAGE_LEN
           /\ heap = {<<"obs->metafits_filename", 0>>,
                      <<"obs->gpubox_filenames", 0>>, <<"obs->gpubox_ptrs", 0>>}
                     \cup {<<"obs->gpubox_filenames[]", i>> : i \in 0 .. n - 1}
           /\ handles = {<<"metafits", 0>>} \cup {<<"gpubox", i>> : i \in 0 .. n - 1}
           /\ hdu = Array(n, 1)
           /\ world = [WorldInit EXCEPT !.gpstime = Str(<<"7">>),
                                        !.ninputs = Str(<<"2">>),
                                        !.hdus = Array(n, 0),
                                        !.time = Array(n, NothingRead)]
           /\ loc = [LocInit EXCEPT !.i = n]
           /\ ret = NONE
           /\ rc = NONE

SpecBatchRange == InitBatchRange /\ [][NextBatches]_vars

(***************************************************************************)
(* The keyword readers of fitsreader.c on their own: get_fits_long_value   *)
(* as process_args calls it for GPSTIME (args.c:151) and                   *)
(* get_fits_comma_delimited_ints as it calls it for CHANNELS (args.c:214), *)
(* on a keyword value drawn from KeywordStrings.                           *)
(***************************************************************************)
KeywordChars == {"1", "2", "x", ",", " ", "@"}

\* the values of up to MaxChars characters a keyword may hold
KeywordStrings ==
    {Str(body) : body \in UNION {[1 .. n -> KeywordChars] : n \in 0 .. MaxChars}}

\* *obs at args.c:151: the metafits is open, nothing else is set
ObsAtGpstime == [ObsUninit EXCEPT !.metafits_filename = Str(<<"m">>)]

\* *obs at args.c:214 for one file without a batch number: the batches are
\* determined and coarse_channels is allocated
ObsAtChannels ==
    [ObsUninit EXCEPT
        !.obsid = atoi(Str(<<"7">>)),
        !.num_pols = 4,
        !.num_baselines = NumBaselines(atoi(Str(<<"2">>))),
        !.metafits_filename = Str(<<"m">>),
        !.gpubox_filename_count = 1,
        !.gpubox_filenames = Array(1, OldName),
        !.gpubox_ptrs = Array(1, "open"),
        !.gpubox_batch_count = 1,
        !.gpubox_filename_batches = Array(1, [isNull |-> FALSE, elems |-> Array(1, 0)]),
        !.gpubox_ptr_batches = Array(1, [isNull |-> FALSE, elems |-> Array(1, 0)]),
        !.coarse_channels = Array(MWALIB_MAX_COARSE_CHANNELS, UNINIT)]

InitReader ==
    \E s \in KeywordStrings :
       /\ pc = "reader"
       /\ args = [metafits_filename |-> Str(<<"m">>), gpubox_filenames |-> <<OldName>>]
       /\ errorMessage = EmptyMessage
       /\ errExtent = MWALIB_ERROR_MESSAGE_LEN
       /\ loc = LocInit
       /\ ret = NONE
       /\ rc = NONE
       /\ \/ /\ entry = "get_fits_long_value"
             /\ obs = ObsAtGpstime
             /\ world = [WorldInit EXCEPT !.gpstime = s]
             /\ heap = {<<"obs->metafits_filename", 0>>}
             /\ handles = {<<"metafits", 0>>}
             /\ hdu = <<>>
          \/ /\ entry = "get_fits_comma_delimited_ints"
             /\ obs = ObsAtChannels
             /\ world = [WorldInit EXCEPT !.gpstime = Str(<<"7">>),
                                          !.ninputs = Str(<<"2">>),
                                          !.channels = s,
                                          !.hdus = Array(1, 0),
                                          !.time = Array(1, NothingRead)]
             /\ heap = {<<"obs->metafits_filename", 0>>,
                        <<"obs->gpubox_filenames", 0>>, <<"obs->gpubox_ptrs", 0>>,
                        <<"obs->gpubox_filenames[]", 0>>,
                        <<"obs->gpubox_filename_batches", 0>>,
                        <<"obs->gpubox_ptr_batches", 0>>,
                        <<"obs->gpubox_filename_batches[]", 0>>,
                        <<"obs->gpubox_ptr_batches[]", 0>>,
                        <<"coarse_channel_string", 0>>,
                        <<"obs->coarse_channels", 0>>}
             /\ handles = {<<"metafits", 0>>, <<"gpubox", 0>>}
             /\ hdu = Array(1, 1)

\* fitsreader.c:115-126 with get_fits_string_value (89-100): the value is
\* whatever atol makes of the keyword's string
GetFitsLongValue ==
    /\ pc = "reader"
    /\ entry = "get_fits_long_value"
    /\ \/ /\ obs' = [obs EXCEPT !.obsid = atoi(world.gpstime)]
          /\ CalleeReturn(EXIT_SUCCESS, "reader_ret")
          /\ UNCHANGED <<errorMessage, errExtent>>
       \/ \E n \in ErrStatusLens :
             /\ errorMessage' = KeywordFailure(n, " (GPSTIME)")
             /\ errExtent' = Extent(errExtent, errorMessage')
             /\ CalleeReturn(EXIT_FAILURE, "reader_ret")
             /\ UNCHANGED obs
    /\ UNCHANGED <<entry, args, heap, handles, hdu, world, loc>>

\* fitsreader.c:167-202: the whole function, *int_count being
\* obs->num_coarse_channels and int_array obs->coarse_channels
GetFitsCommaDelimitedInts ==
    /\ pc = "reader"
    /\ entry = "get_fits_comma_delimited_ints"
    /\ \/ \E n \in ErrStatusLens :
             /\ errorMessage' = KeywordFailure(n, " (CHANNELS)")
             /\ errExtent' = Extent(errExtent, errorMessage')
             /\ CalleeReturn(EXIT_FAILURE, "reader_ret")
             /\ UNCHANGED <<obs, world>>
       \/ \E g \in Garbage, survive \in BOOLEAN :
             LET v == world.channels
                 r == ParseInts(strsep_all(v), 1, <<>>)
                 first == IF obs.num_coarse_channels = UNINIT
                          THEN g ELSE obs.num_coarse_channels
                 last == first + Len(r.vals)
                 inside == first >= 0 /\ last <= MWALIB_MAX_COARSE_CHANNELS
             IN  /\ world' = [world EXCEPT !.garbage = first]
                 /\ IF strlen(v) > CoarseChannelStringSize
                    THEN /\ errorMessage' =
                                snprintf("cfitsio-read long string associated with fits key %s is too long for supplied input string (size: %d) (get_fits_comma_delimited_ints)",
                                         <<CoarseChannelStringSize>>,
                                         8 + DecLen(CoarseChannelStringSize))
                         /\ errExtent' = Extent(errExtent, errorMessage')
                         /\ CalleeReturn(EXIT_FAILURE, "reader_ret")
                         /\ UNCHANGED obs
                    ELSE IF ~inside /\ ~survive
                    THEN /\ Crash
                         /\ UNCHANGED <<obs, errorMessage, errExtent, ret>>
                    ELSE /\ obs' = [obs EXCEPT
                               !.coarse_channels = StoreInts(@, first, r.vals),
                               !.num_coarse_channels = last]
                         /\ IF r.ok
                            THEN /\ CalleeReturn(EXIT_SUCCESS, "reader_ret")
                                 /\ UNCHANGED <<errorMessage, errExtent>>
                            ELSE /\ errorMessage' =
                                        snprintf("Failed to parse int from string in fits file (get_fits_comma_delimited_ints)",
                                                 <<>>, 0)
                                 /\ errExtent' = Extent(errExtent, errorMessage')
                                 /\ CalleeReturn(EXIT_FAILURE, "reader_ret")
    /\ UNCHANGED <<entry, args, heap, handles, hdu, loc>>

NextReader ==
    \/ GetFitsLongValue
    \/ GetFitsCommaDelimitedInts

SpecReader == InitReader /\ [][NextReader]_vars

(***************************************************************************)
(* The contexts of the mwalib_* interface (src/include/mwalib.h) and their  *)
(* indexed reader.  The examples only call them: a context is built from    *)
(* a set of data files, each covering some timesteps and some coarse        *)
(* channels, and then read by (timestep index, coarse channel index).       *)
(* One or two data files are supplied.                                      *)
(***************************************************************************)
MaxSteps == 2
MaxChans == 2

\* what one data file holds
Coverage ==
    {[timesteps |-> ts, coarse_chans |-> cs] :
        ts \in SUBSET (1 .. MaxSteps) \ {{}}, cs \in SUBSET (1 .. MaxChans) \ {{}}}

SuppliedFiles == {{a, b} : a, b \in Coverage}

\* provided: at least one data file was supplied for it
provided_timesteps(files) == UNION {f.timesteps : f \in files}
provided_coarse_chans(files) == UNION {f.coarse_chans : f \in files}

\* common: present in every supplied data file
common_timesteps(files) ==
    {t \in provided_timesteps(files) : \A f \in files : t \in f.timesteps}
common_coarse_chans(files) ==
    {c \in provided_coarse_chans(files) : \A f \in files : c \in f.coarse_chans}

RECURSIVE SortAscending(_)
SortAscending(S) ==
    IF S = {} THEN <<>>
    ELSE LET least == CHOOSE x \in S : \A y \in S : x <= y
         IN  <<least>> \o SortAscending(S \ {least})

\* indices that renumber the elements of S from 0
RECURSIVE Renumbered(_, _, _)
Renumbered(array, S, from) ==
    IF from > Len(array) THEN <<>>
    ELSE LET rest == Renumbered(array, S, from + 1)
         IN  IF array[from] \in S /\ Len(rest) < Cardinality(S)
             THEN rest \o <<Len(rest)>> ELSE rest

\* the indices, counted from 0 and in array order, of the elements of the
\* full array that belong to S
RECURSIVE IndicesOf(_, _, _)
IndicesOf(array, S, from) ==
    IF from > Len(array) THEN <<>>
    ELSE (IF array[from] \in S THEN <<from - 1>> ELSE <<>>)
         \o IndicesOf(array, S, from + 1)

\* the number of floats of one timestep of one coarse channel
NumFloats(files) == Cardinality(provided_coarse_chans(files)) * NumBaselines(1) * 8

NoContext ==
    [isNull |-> TRUE, timesteps |-> <<>>, coarse_chans |-> <<>>,
     provided_timestep_indices |-> <<>>, provided_coarse_chan_indices |-> <<>>,
     common_timestep_indices |-> <<>>, common_coarse_chan_indices |-> <<>>,
     num_timestep_coarse_chan_floats |-> 0]

mwalib_correlator_context_new(files) ==
    LET timesteps == SortAscending(provided_timesteps(files))
        coarse_chans == SortAscending(provided_coarse_chans(files))
    IN  [isNull |-> FALSE,
         timesteps |-> timesteps,
         coarse_chans |-> coarse_chans,
         provided_timestep_indices |->
            IndicesOf(timesteps, provided_timesteps(files), 1),
         provided_coarse_chan_indices |->
            IndicesOf(coarse_chans, provided_coarse_chans(files), 1),
         common_timestep_indices |->
            IndicesOf(timesteps, common_timesteps(files), 1),
         common_coarse_chan_indices |->
            IndicesOf(coarse_chans, common_coarse_chans(files), 1),
         num_timestep_coarse_chan_floats |-> NumFloats(files)]

Elements(list) == {list[k] : k \in 1 .. Len(list)}

\* the places of a read request at which the declared length may be
\* verified: all of them come before the read is issued
LengthChecks == {"entry", "validated", "mapped"}

Outcome(o, io) == [outcome |-> o, io |-> io]

ValidIndex(ctx, t, c) ==
    /\ t \in Elements(ctx.provided_timestep_indices)
    /\ c \in Elements(ctx.provided_coarse_chan_indices)

HasData(ctx, t, c) ==
    /\ t \in Elements(ctx.common_timestep_indices)
    /\ c \in Elements(ctx.common_coarse_chan_indices)

\* a reader that looks for data before it validates the indices
DataBeforeRange(ctx, t, c, buffer_len, check, container) ==
    LET short == buffer_len < ctx.num_timestep_coarse_chan_floats
    IN  IF check = "entry" /\ short THEN Outcome("BufferTooSmall", "none")
        ELSE IF ~HasData(ctx, t, c) THEN Outcome("NoDataForCombination", "none")
        ELSE IF ~ValidIndex(ctx, t, c) THEN Outcome("InvalidIndex", "none")
        ELSE IF short THEN Outcome("BufferTooSmall", "none")
        ELSE IF container = "ok" THEN Outcome("Success", "ok")
        ELSE Outcome("ReadFailure", "error")

\* a reader that verifies the declared length after the read
LengthAfterRead(ctx, t, c, buffer_len, check, container) ==
    LET short == buffer_len < ctx.num_timestep_coarse_chan_floats
    IN  IF ~ValidIndex(ctx, t, c) THEN Outcome("InvalidIndex", "none")
        ELSE IF ~HasData(ctx, t, c) THEN Outcome("NoDataForCombination", "none")
        ELSE IF container = "error" THEN Outcome("ReadFailure", "error")
        ELSE IF short THEN Outcome("BufferTooSmall", "ok")
        ELSE Outcome("Success", "ok")

\* the state machine of one read request; io tells what was asked of the
\* data file: "none", or a read that went "ok" or ended in "error"
mwalib_correlator_context_read_by_baseline(ctx, t, c, buffer_len, check, container) ==
    LET short == buffer_len < ctx.num_timestep_coarse_chan_floats
    IN  IF check = "entry" /\ short THEN Outcome("BufferTooSmall", "none")
        ELSE IF ~ValidIndex(ctx, t, c) THEN Outcome("InvalidIndex", "none")
        ELSE IF check = "validated" /\ short THEN Outcome("BufferTooSmall", "none")
        ELSE IF ~HasData(ctx, t, c) THEN Outcome("NoDataForCombination", "none")
        ELSE IF short THEN Outcome("BufferTooSmall", "none")
        ELSE IF container = "ok" THEN Outcome("Success", "ok")
        ELSE Outcome("ReadFailure", "error")

NoRequest == [timestep_index |-> NONE, coarse_chan_index |-> NONE,
              buffer_len |-> NONE, io |-> "none"]

InitRead ==
    /\ entry = "mwalib_correlator_context_new"
    /\ pc = "new"
    /\ args = [metafits_filename |-> Str(<<"m">>), gpubox_filenames |-> <<>>]
    /\ obs = NoContext
    /\ errorMessage = EmptyMessage
    /\ errExtent = 0
    /\ heap = {}
    /\ handles = {}
    /\ hdu = <<>>
    /\ world \in {[files |-> F] : F \in SuppliedFiles}
    /\ loc = NoRequest
    /\ ret = "none"
    /\ rc = NONE

ContextNew ==
    /\ pc = "new"
    /\ obs' = mwalib_correlator_context_new(world.files)
    /\ entry' = "main"
    /\ pc' = "built"
    /\ UNCHANGED <<args, errorMessage, errExtent, heap, handles, hdu, world, loc, ret, rc>>

\* what a read request may come to, over the places of the length check
\* and over what the data file's read does
ReadResults(ctx, t, c, buffer_len) ==
    {mwalib_correlator_context_read_by_baseline(ctx, t, c, buffer_len, check, container) :
        check \in LengthChecks, container \in {"ok", "error"}}

\* one read request on the built context, of any indices one past the
\* arrays at most and of a buffer one float short, exact or one float long
ReadByBaseline ==
    /\ pc = "built"
    /\ \E t \in 0 .. MaxSteps, c \in 0 .. MaxChans, d \in {-1, 0, 1} :
          LET len == obs.num_timestep_coarse_chan_floats + d
          IN  \E r \in ReadResults(obs, t, c, len) :
                 /\ loc' = [timestep_index |-> t, coarse_chan_index |-> c,
                            buffer_len |-> len, io |-> r.io]
                 /\ ret' = r.outcome
    /\ pc' = "read"
    /\ UNCHANGED <<entry, args, obs, errorMessage, errExtent, heap, handles, hdu, world, rc>>

\* the caller has looked at the outcome and goes on to its next request
NextRequest ==
    /\ pc = "read"
    /\ pc' = "built"
    /\ loc' = NoRequest
    /\ ret' = "none"
    /\ UNCHANGED <<entry, args, obs, errorMessage, errExtent, heap, handles, hdu, world, rc>>

NextRead ==
    \/ ContextNew
    \/ ReadByBaseline
    \/ NextRequest

SpecRead == InitRead /\ [][NextRead]_vars

(***************************************************************************)
(* do_sum_parallel_pthreads_read_file and _read_second                      *)
(* (src/examples/mwalib-sum-vcs.c:166-364) with their workers               *)
(* process_coarse_channel_read_file and _read_second (36-164): main         *)
(* creates one thread per (timestep, coarse channel), joins them in order   *)
(* and adds up what each left in its ThreadArgs slot.  The functions are    *)
(* entered as main calls them (436-479), with first <= last on both axes.   *)
(***************************************************************************)
MaxWorkers == 3

\* the codes a read returns, as the examples name them (sum-vcs.c:78, 87);
\* any other code is a failure
MWALIB_SUCCESS == "MWALIB_SUCCESS"
MWALIB_NO_DATA_FOR_TIMESTEP_COARSECHAN == "MWALIB_NO_DATA_FOR_TIMESTEP_COARSECHAN"
ReadCodes == {MWALIB_SUCCESS, MWALIB_NO_DATA_FOR_TIMESTEP_COARSECHAN, "failure"}

\* a thread count that adds the two counts
SumOfCounts(num_coarse_chans, num_timesteps) == num_coarse_chans + num_timesteps

\* sum-vcs.c:189 and 290 (unsigned int: with first <= last and the indices
\* of the calls no difference is negative and no product reaches 2^32)
NumThreads(num_coarse_chans, num_timesteps) == num_coarse_chans * num_timesteps

\* calloc of one ThreadArgs_read_file / ThreadArgs_read_second
ZeroedArgs ==
    [context |-> "NULL", error_message |-> FALSE, timestep_index |-> 0,
     gps_second_start |-> 0, gps_second_count |-> 0, coarse_chan_index |-> 0,
     local_sum |-> 0, version |-> 0, writers |-> {}]

\* what a call of the function under execution is given
SumCalls ==
    {[first_timestep_index |-> ft, last_timestep_index |-> lt,
      first_chan_index |-> fc, last_chan_index |-> lc,
      first_gps_second |-> 16 + 8 * ft, timestep_duration_seconds |-> 8,
      version |-> v] :
        ft \in 0 .. 1, lt \in 0 .. MaxWorkers, fc \in 0 .. 1, lc \in 0 .. MaxWorkers,
        v \in {1, 2}}

SumCallsOfMain ==
    {a \in SumCalls :
        /\ a.first_timestep_index <= a.last_timestep_index
        /\ a.first_chan_index <= a.last_chan_index
        /\ (a.last_timestep_index - a.first_timestep_index + 1)
              * (a.last_chan_index - a.first_chan_index + 1) <= MaxWorkers}

SumLocals(a) ==
    [call |-> a, num_coarse_chans |-> 0, num_timesteps |-> 0, num_threads |-> 0,
     arg_index |-> 0, t_index |-> 0, cc_index |-> 0, thread_index |-> 0,
     total_sum |-> 0, args |-> <<>>, threads |-> <<>>, workers |-> <<>>,
     reads |-> {}]

InitSum ==
    /\ entry \in {"do_sum_parallel_pthreads_read_file",
                  "do_sum_parallel_pthreads_read_second"}
    /\ pc = "sum_begin"
    /\ args = [metafits_filename |-> Str(<<"m">>), gpubox_filenames |-> <<>>]
    /\ obs = NoContext
    /\ errorMessage = EmptyMessage
    /\ errExtent = 0
    /\ heap = {}
    /\ handles = {}
    /\ hdu = <<>>
    /\ world = [files |-> {}]
    /\ loc \in {SumLocals(a) : a \in SumCallsOfMain}
    /\ ret = NONE
    /\ rc = NONE

\* exit(EXIT_FAILURE): the process ends, its threads with it
Exit == pc' = "exited" /\ rc' = EXIT_FAILURE

FirstT == IF entry = "do_sum_parallel_pthreads_read_file"
          THEN loc.call.first_timestep_index ELSE 0

\* sum-vcs.c:174-212 and 274-314: the counts, the two arrays and the
\* error message of every slot
DS_Alloc ==
    /\ pc = "sum_begin"
    /\ LET a == loc.call
           ncc == a.last_chan_index - a.first_chan_index + 1
           nts == a.last_timestep_index - a.first_timestep_index + 1
           n == NumThreads(ncc, nts)
       IN  IF ncc < 1 \/ nts < 1
           THEN Exit /\ UNCHANGED <<heap, loc>>
           ELSE \/ \E ok1, ok2 \in BOOLEAN :
                      /\ ~(ok1 /\ ok2)
                      /\ heap' = heap \cup (IF ok1 THEN {<<"threads", 0>>} ELSE {})
                                      \cup (IF ok2 THEN {<<"args", 0>>} ELSE {})
                      /\ Exit
                      /\ UNCHANGED loc
                \/ \E failed \in 0 .. n - 1 :
                      /\ heap' = heap \cup {<<"threads", 0>>, <<"args", 0>>}
                                      \cup {<<"args[].error_message", k>> : k \in 0 .. failed - 1}
                      /\ Exit
                      /\ UNCHANGED loc
                \/ /\ heap' = heap \cup {<<"threads", 0>>, <<"args", 0>>}
                                   \cup {<<"args[].error_message", k>> : k \in 0 .. n - 1}
                   /\ loc' = [loc EXCEPT
                         !.num_coarse_chans = ncc,
                         !.num_timesteps = nts,
                         !.num_threads = n,
                         !.threads = Array(n, "none"),
                         !.workers = Array(n, [arg |-> NONE]),
                         !.args = Array(n, [ZeroedArgs EXCEPT
                                               !.context = "context",
                                               !.error_message = TRUE,
                                               !.gps_second_count =
                                                  IF entry = "do_sum_parallel_pthreads_read_second"
                                                  THEN a.timestep_duration_seconds ELSE 0,
                                               !.version = a.version]),
                         !.arg_index = 0,
                         !.t_index = FirstT,
                         !.cc_index = a.first_chan_index]
                   /\ pc' = "sum_create"
                   /\ UNCHANGED rc
    /\ UNCHANGED <<entry, args, obs, errorMessage, errExtent, handles, hdu, world, ret>>

\* the loop over the timesteps is over: sum-vcs.c:215 and 317
CreateDone ==
    IF entry = "do_sum_parallel_pthreads_read_file"
    THEN loc.t_index > loc.call.last_timestep_index
    ELSE loc.t_index >= loc.num_timesteps

\* a thread started on slot 0 whatever its index
FirstSlot(arg_index) == 0

\* the slot whose address pthread_create hands to the thread:
\* &args[arg_index], sum-vcs.c:227 and 329
ArgOf(arg_index) == arg_index

\* sum-vcs.c:218-236 and 322-338: one pass of the inner loop, with the
\* loop headers that bring the next pass about
DS_Create ==
    /\ pc = "sum_create"
    /\ ~CreateDone
    /\ LET i == loc.arg_index
           last == loc.cc_index = loc.call.last_chan_index
           advanced == [loc EXCEPT
                          !.arg_index = i + 1,
                          !.cc_index = IF last THEN loc.call.first_chan_index
                                       ELSE loc.cc_index + 1,
                          !.t_index = IF last THEN loc.t_index + 1 ELSE loc.t_index]
       IN  IF ~(i < loc.num_threads)
           THEN /\ pc' = "aborted"
                /\ UNCHANGED <<loc, rc>>
           ELSE LET slot == IF entry = "do_sum_parallel_pthreads_read_file"
                            THEN [loc.args[i] EXCEPT
                                     !.timestep_index = loc.t_index,
                                     !.coarse_chan_index = loc.cc_index]
                            ELSE [loc.args[i] EXCEPT
                                     !.gps_second_start =
                                        loc.call.first_gps_second
                                        + loc.t_index * loc.call.timestep_duration_seconds,
                                     !.coarse_chan_index = loc.cc_index]
                IN  \/ /\ loc' = [loc EXCEPT !.args[i] = slot]
                       /\ Exit
                    \/ /\ loc' = [advanced EXCEPT
                             !.args[i] = slot,
                             !.threads[i] = "created",
                             !.workers[i] = [arg |-> ArgOf(i)]]
                       /\ UNCHANGED <<pc, rc>>
    /\ UNCHANGED <<entry, args, obs, errorMessage, errExtent, heap, handles, hdu, world, ret>>

\* sum-vcs.c:239-240 and 341-342: every thread is created
DS_Created ==
    /\ pc = "sum_create"
    /\ CreateDone
    /\ pc' = "sum_join"
    /\ loc' = [loc EXCEPT !.thread_index = 0]
    /\ UNCHANGED <<entry, args, obs, errorMessage, errExtent, heap, handles, hdu, world, ret, rc>>

\* sum-vcs.c:242-253 and 344-355: pthread_join returns once the thread has
\* ended; main then reads the thread's slot
DS_Join ==
    /\ pc = "sum_join"
    /\ loc.thread_index < loc.num_threads
    /\ LET k == loc.thread_index
       IN  /\ loc.threads[k] = "exited"
           /\ \/ /\ loc' = [loc EXCEPT
                        !.threads[k] = "joined",
                        !.total_sum = @ + loc.args[k].local_sum,
                        !.reads = @ \cup {[slot |-> k, thread |-> loc.threads[k]]},
                        !.thread_index = k + 1]
                 /\ UNCHANGED <<pc, rc>>
              \/ /\ Exit
                 /\ UNCHANGED loc
    /\ UNCHANGED <<entry, args, obs, errorMessage, errExtent, heap, handles, hdu, world, ret>>

\* sum-vcs.c:256-262 and 358-364: the total is printed, then the error
\* messages, the slots and the thread array are freed
DS_Finish ==
    /\ pc = "sum_join"
    /\ ~(loc.thread_index < loc.num_threads)
    /\ ret' = loc.total_sum
    /\ heap' = heap \ ({<<"threads", 0>>, <<"args", 0>>}
                       \cup {<<"args[].error_message", k>> : k \in 0 .. loc.num_threads - 1})
    /\ pc' = "sum_done"
    /\ UNCHANGED <<entry, args, obs, errorMessage, errExtent, handles, hdu, world, loc, rc>>

Running == pc \in {"sum_create", "sum_join"}

\* sum-vcs.c:38-45 and 104-111: the thread's buffer
W_Start(k) ==
    /\ Running
    /\ loc.threads[k] = "created"
    /\ \/ /\ heap' = heap \cup {<<"buffer", k>>}
          /\ loc' = [loc EXCEPT !.threads[k] = "running"]
       \/ /\ loc' = [loc EXCEPT !.threads[k] = "exited"]
          /\ UNCHANGED heap
    /\ UNCHANGED <<entry, pc, args, obs, errorMessage, errExtent, handles, hdu, world, ret, rc>>

\* the sums a buffer may come to
BufferSums == {-1, 2}

\* a worker that, on a read error, waits for ever instead of ending
ReadErrorBlocks(k) ==
    /\ Running
    /\ loc.threads[k] = "running"
    /\ LET a == loc.workers[k].arg
           stored(v) == [loc EXCEPT !.args[a].local_sum = v,
                                    !.args[a].writers = @ \cup {k},
                                    !.threads[k] = "stored"]
       IN  \E r \in ReadCodes, sum \in BufferSums :
              IF loc.args[a].version \notin {1, 2}
              THEN /\ loc' = [loc EXCEPT !.threads[k] = "exited"]
                   /\ heap' = heap \ {<<"buffer", k>>}
              ELSE IF r = MWALIB_SUCCESS
              THEN loc' = stored(sum) /\ UNCHANGED heap
              ELSE IF r = MWALIB_NO_DATA_FOR_TIMESTEP_COARSECHAN
              THEN loc' = stored(0) /\ UNCHANGED heap
              ELSE /\ loc' = [loc EXCEPT !.threads[k] = "blocked"]
                   /\ UNCHANGED heap
    /\ UNCHANGED <<entry, pc, args, obs, errorMessage, errExtent, handles, hdu, world, ret, rc>>

\* sum-vcs.c:47-93 and 113-159: the read of the slot's pair through the
\* shared context, and the store of its sum in the slot the thread was
\* given
W_Read(k) ==
    /\ Running
    /\ loc.threads[k] = "running"
    /\ LET a == loc.workers[k].arg
           stored(v) == [loc EXCEPT !.args[a].local_sum = v,
                                    !.args[a].writers = @ \cup {k},
                                    !.threads[k] = "stored"]
       IN  \E r \in ReadCodes, sum \in BufferSums :
              IF loc.args[a].version \notin {1, 2}
              THEN /\ loc' = [loc EXCEPT !.threads[k] = "exited"]
                   /\ heap' = heap \ {<<"buffer", k>>}
              ELSE IF r = MWALIB_SUCCESS
              THEN loc' = stored(sum) /\ UNCHANGED heap
              ELSE IF r = MWALIB_NO_DATA_FOR_TIMESTEP_COARSECHAN
              THEN loc' = stored(0) /\ UNCHANGED heap
              ELSE /\ loc' = [loc EXCEPT !.threads[k] = "exited"]
                   /\ heap' = heap \ {<<"buffer", k>>}
    /\ UNCHANGED <<entry, pc, args, obs, errorMessage, errExtent, handles, hdu, world, ret, rc>>

\* sum-vcs.c:95-96 and 162-163
W_Exit(k) ==
    /\ Running
    /\ loc.threads[k] = "stored"
    /\ loc' = [loc EXCEPT !.threads[k] = "exited"]
    /\ heap' = heap \ {<<"buffer", k>>}
    /\ UNCHANGED <<entry, pc, args, obs, errorMessage, errExtent, handles, hdu, world, ret, rc>>

Worker == \E k \in DOMAIN loc.threads : W_Start(k) \/ W_Read(k) \/ W_Exit(k)

NextSum ==
    \/ DS_Alloc
    \/ DS_Create
    \/ DS_Created
    \/ DS_Join
    \/ DS_Finish
    \/ Worker

SpecSum == InitSum /\ [][NextSum]_vars

\* the steps of the worker on slot k, if there is one
WorkerStep(k) ==
    /\ k \in DOMAIN loc.threads
    /\ (W_Start(k) \/ W_Read(k) \/ W_Exit(k))

\* the main thread's steps
MainStep == DS_Alloc \/ DS_Create \/ DS_Created \/ DS_Join \/ DS_Finish

\* the scheduler lets every thread that can take a step take one in the
\* end, and every read of the library returns
MaxFairWorkers == 2

\* the calls of InitSum that create no more than MaxFairWorkers workers
InitSumFair ==
    /\ InitSum
    /\ NumThreads(loc.call.last_chan_index - loc.call.first_chan_index + 1,
                  loc.call.last_timestep_index - loc.call.first_timestep_index + 1)
          <= MaxFairWorkers

SpecSumFair ==
    /\ InitSumFair
    /\ [][NextSum]_vars
    /\ WF_vars(MainStep)
    /\ \A k \in 0 .. MaxWorkers - 1 : WF_vars(WorkerStep(k))

(***************************************************************************)
(* The main functions of two examples and what they obtain from the        *)
(* library and give back: src/examples/mwalib-print-obs-context.c:13-208   *)
(* and src/examples/mwalib-sum-all-hdus.c:12-155.  heap holds what is live: *)
(* the objects the library handed out and the program's own buffers.       *)
(***************************************************************************)
ExampleLocals ==
    [obtained |-> {}, released |-> {}, misused |-> {},
     num_timesteps |-> 0, num_coarse_chans |-> 0, mode |-> 0,
     timestep_index |-> 0, coarse_chan_index |-> 0]

InitExamples ==
    /\ \/ entry = "mwalib-print-obs-context" /\ pc = "po_context_new"
       \/ entry = "mwalib-sum-all-hdus" /\ pc = "sa_context_new"
    /\ args = [metafits_filename |-> Str(<<"m">>), gpubox_filenames |-> <<OldName>>]
    /\ obs = NoContext
    /\ errorMessage = EmptyMessage
    /\ errExtent = 0
    /\ heap = IF entry = "mwalib-print-obs-context"
              THEN {<<"gpuboxes", 0>>, <<"error_message", 0>>}
              ELSE {<<"error_message", 0>>}
    /\ handles = {}
    /\ hdu = <<>>
    /\ world = [files |-> {}]
    /\ loc = ExampleLocals
    /\ ret = NONE
    /\ rc = NONE

Live(o) == <<o, 0>> \in heap

\* the library hands out object o
Obtained(l, o) == [l EXCEPT !.obtained = @ \cup {o}]

\* the objects of os are used: one that is not live is misused
Used(l, os) == [l EXCEPT !.misused = @ \cup {o \in os : ~Live(o)}]

ExampleUnchanged == UNCHANGED <<entry, args, obs, errorMessage, errExtent, handles, hdu, world, ret>>

\* a call that hands out object o on success and ends the program with
\* exit(code) on failure, the objects of os being its arguments
GetOrExit(from, to, o, os, code) ==
    /\ pc = from
    /\ \/ /\ heap' = heap \cup {<<o, 0>>}
          /\ loc' = Obtained(Used(loc, os), o)
          /\ pc' = to
          /\ UNCHANGED rc
       \/ /\ loc' = Used(loc, os)
          /\ pc' = "exited"
          /\ rc' = code
          /\ UNCHANGED heap
    /\ ExampleUnchanged

\* a call that hands out object o on success and is reported and passed
\* over on failure; with release, o (or NULL) then goes to its free function
GetOrGoOn(from, to, o, os, release) ==
    /\ pc = from
    /\ \/ /\ heap' = IF release THEN heap ELSE heap \cup {<<o, 0>>}
          /\ loc' = LET l == Obtained(Used(loc, os), o)
                    IN  IF release THEN [l EXCEPT !.released = @ \cup {o}] ELSE l
       \/ /\ loc' = Used(loc, os)
          /\ UNCHANGED heap
    /\ pc' = to
    /\ UNCHANGED rc
    /\ ExampleUnchanged

\* print-obs-context.c:33-39
PO_ContextNew ==
    GetOrExit("po_context_new", "po_metafits_new", "correlator_context",
              {"gpuboxes", "error_message"}, -1)

\* print-obs-context.c:41-47
PO_MetafitsNew ==
    GetOrExit("po_metafits_new", "po_corr_metadata", "metafits_context",
              {"error_message"}, -1)

\* print-obs-context.c:49-55
PO_CorrMetadata ==
    GetOrExit("po_corr_metadata", "po_display", "corr_metadata",
              {"correlator_context", "error_message"}, -1)

\* print-obs-context.c:57-61
PO_Display ==
    /\ pc = "po_display"
    /\ loc' = Used(loc, {"correlator_context", "error_message"})
    /\ \/ pc' = "po_metafits_metadata" /\ UNCHANGED rc
       \/ pc' = "exited" /\ rc' = -1
    /\ UNCHANGED heap
    /\ ExampleUnchanged

\* print-obs-context.c:63-108
PO_MetafitsMetadata ==
    GetOrExit("po_metafits_metadata", "po_timesteps", "metafits_metadata",
              {"correlator_context", "error_message"}, 1)

\* print-obs-context.c:111-129: the timesteps, freed at once
PO_Timesteps ==
    GetOrGoOn("po_timesteps", "po_coarse_channel", "ts",
              {"correlator_context", "corr_metadata", "error_message"}, TRUE)

\* print-obs-context.c:131-140; its free is commented out (197-198)
PO_CoarseChannel ==
    GetOrGoOn("po_coarse_channel", "po_antennas", "cc0",
              {"correlator_context", "error_message"}, FALSE)

\* print-obs-context.c:142-160: every pass of the loop gets the antennas
\* and frees them
PO_Antennas ==
    GetOrGoOn("po_antennas", "po_rfinput", "ants",
              {"metafits_context", "metafits_metadata", "error_message"}, TRUE)

\* print-obs-context.c:162-171; its free is commented out (194-195)
PO_RfInput ==
    GetOrGoOn("po_rfinput", "po_vis_pols", "rf0",
              {"metafits_context", "error_message"}, FALSE)

\* print-obs-context.c:173-192: the visibility pols, freed at once
PO_VisPols ==
    /\ pc = "po_vis_pols"
    /\ LET l == Used(loc, {"correlator_context", "corr_metadata", "error_message"})
       IN  \/ /\ loc' = [Obtained(l, "vis_pol_array") EXCEPT
                            !.released = @ \cup {"vis_pol_array"}]
              /\ pc' = "po_cleanup"
              /\ UNCHANGED rc
           \/ /\ loc' = l
              /\ pc' = "exited"
              /\ rc' = -1
    /\ UNCHANGED heap
    /\ ExampleUnchanged

\* what remains of the heap once the objects of the sequence are freed,
\* and the locals that record it
RECURSIVE ReleaseAll(_, _, _)
ReleaseAll(l, h, os) ==
    IF os = <<>> THEN [loc |-> l, heap |-> h]
    ELSE LET o == Head(os)
         IN  ReleaseAll(IF <<o, 0>> \in h
                        THEN [l EXCEPT !.released = @ \cup {o}]
                        ELSE [l EXCEPT !.misused = @ \cup {o}],
                        h \ {<<o, 0>>}, Tail(os))

\* print-obs-context.c:200-207
PO_CleanUp ==
    /\ pc = "po_cleanup"
    /\ LET r == ReleaseAll(loc, heap, <<"corr_metadata", "correlator_context",
                                        "gpuboxes", "error_message">>)
       IN  loc' = r.loc /\ heap' = r.heap
    /\ pc' = "ex_done"
    /\ rc' = EXIT_SUCCESS
    /\ ExampleUnchanged

\* sum-all-hdus.c:95-102
SA_ContextNew ==
    /\ pc = "sa_context_new"
    /\ \/ /\ heap' = heap \cup {<<"corr_context", 0>>}
          /\ loc' = Obtained(Used(loc, {"error_message"}), "corr_context")
          /\ pc' = "sa_display"
          /\ UNCHANGED rc
       \/ /\ heap' = heap \ {<<"error_message", 0>>}
          /\ loc' = Used(loc, {"error_message"})
          /\ pc' = "exited"
          /\ rc' = EXIT_FAILURE
    /\ ExampleUnchanged

\* sum-all-hdus.c:104-119: display_message is allocated, filled and freed
SA_Display ==
    /\ pc = "sa_display"
    /\ loc' = Used(loc, {"corr_context", "error_message"})
    /\ \/ pc' = "sa_corr_metadata" /\ UNCHANGED <<rc, heap>>
       \/ /\ heap' = heap \ {<<"error_message", 0>>}
          /\ pc' = "exited"
          /\ rc' = EXIT_FAILURE
    /\ ExampleUnchanged

\* sum-all-hdus.c:121-128
SA_CorrMetadata ==
    /\ pc = "sa_corr_metadata"
    /\ \/ /\ heap' = heap \cup {<<"corr_metadata", 0>>}
          /\ loc' = Obtained(Used(loc, {"corr_context", "error_message"}), "corr_metadata")
          /\ pc' = "sa_metafits_metadata"
          /\ UNCHANGED rc
       \/ /\ heap' = heap \ {<<"error_message", 0>>}
          /\ loc' = Used(loc, {"corr_context", "error_message"})
          /\ pc' = "exited"
          /\ rc' = EXIT_FAILURE
    /\ ExampleUnchanged

\* sum-all-hdus.c:130-141: the counts are read from the metadata
SA_MetafitsMetadata ==
    /\ pc = "sa_metafits_metadata"
    /\ LET l == Used(loc, {"corr_context", "corr_metadata", "error_message"})
       IN  \/ \E nt \in 1 .. MaxSteps, nc \in 1 .. MaxChans :
                 /\ heap' = heap \cup {<<"metafits_metadata", 0>>}
                 /\ loc' = [Obtained(l, "metafits_metadata") EXCEPT
                               !.num_timesteps = nt,
                               !.num_coarse_chans = nc,
                               !.mode = 1]
                 /\ pc' = "sa_sum"
                 /\ UNCHANGED rc
           \/ /\ heap' = heap \ {<<"error_message", 0>>}
              /\ loc' = l
              /\ pc' = "exited"
              /\ rc' = EXIT_FAILURE
    /\ ExampleUnchanged

\* sum-all-hdus.c:13-34: do_sum's own error message and its data buffer
DoSumBegin ==
    /\ pc = "sa_sum"
    /\ heap' = heap \cup {<<"do_sum.error_message", 0>>, <<"data_buffer", 0>>}
    /\ loc' = [loc EXCEPT !.timestep_index = 0, !.coarse_chan_index = 0]
    /\ pc' = "sa_read"
    /\ UNCHANGED rc
    /\ ExampleUnchanged

\* where main goes on once do_sum returns: sum-all-hdus.c:144-149
AfterDoSum(l) ==
    /\ loc' = [l EXCEPT !.mode = IF l.mode = 1 THEN 2 ELSE l.mode,
                        !.timestep_index = 0, !.coarse_chan_index = 0]
    /\ pc' = IF l.mode = 1 THEN "sa_sum" ELSE "sa_cleanup"

\* sum-all-hdus.c:35-74: one read of the loops
DoSumRead ==
    /\ pc = "sa_read"
    /\ loc.timestep_index < loc.num_timesteps
    /\ LET l == Used(loc, {"corr_context", "data_buffer", "do_sum.error_message"})
           last == loc.coarse_chan_index = loc.num_coarse_chans - 1
       IN  \E r \in ReadCodes :
              IF r \in {MWALIB_SUCCESS, MWALIB_NO_DATA_FOR_TIMESTEP_COARSECHAN}
              THEN /\ loc' = [l EXCEPT
                            !.coarse_chan_index = IF last THEN 0 ELSE @ + 1,
                            !.timestep_index = IF last THEN @ + 1 ELSE @]
                   /\ UNCHANGED <<pc, heap>>
              ELSE /\ heap' = heap \ {<<"do_sum.error_message", 0>>, <<"data_buffer", 0>>}
                   /\ AfterDoSum(l)
    /\ UNCHANGED rc
    /\ ExampleUnchanged

\* sum-all-hdus.c:76-79
DoSumEnd ==
    /\ pc = "sa_read"
    /\ ~(loc.timestep_index < loc.num_timesteps)
    /\ heap' = heap \ {<<"do_sum.error_message", 0>>, <<"data_buffer", 0>>}
    /\ AfterDoSum(loc)
    /\ UNCHANGED rc
    /\ ExampleUnchanged

\* sum-all-hdus.c:149-154
SA_CleanUp ==
    /\ pc = "sa_cleanup"
    /\ LET r == ReleaseAll(loc, heap, <<"metafits_metadata", "corr_metadata",
                                        "corr_context", "error_message">>)
       IN  loc' = r.loc /\ heap' = r.heap
    /\ pc' = "ex_done"
    /\ rc' = EXIT_SUCCESS
    /\ ExampleUnchanged

NextExamples ==
    \/ PO_ContextNew
    \/ PO_MetafitsNew
    \/ PO_CorrMetadata
    \/ PO_Display
    \/ PO_MetafitsMetadata
    \/ PO_Timesteps
    \/ PO_CoarseChannel
    \/ PO_Antennas
    \/ PO_RfInput
    \/ PO_VisPols
    \/ PO_CleanUp
    \/ SA_ContextNew
    \/ SA_Display
    \/ SA_CorrMetadata
    \/ SA_MetafitsMetadata
    \/ DoSumBegin
    \/ DoSumRead
    \/ DoSumEnd
    \/ SA_CleanUp

SpecExamples == InitExamples /\ [][NextExamples]_vars

(***************************************************************************)
(* The main of mwalib-print-context.c.  The program is given a metafits    *)
(* file and any number of data files; it builds the one context the files  *)
(* call for, asks for the metafits metadata through it and prints the last *)
(* element of five collections.  A context pointer is "NULL" or the name   *)
(* of the object the library handed out.                                   *)
(***************************************************************************)
MaxArgs == 3
MaxCount == 2

\* the width the model gives size_t: TLC's integers have 32 bits, so the
\* 64 bits of the target are cut to 30, which is still above every count
SizeModulus == 1073741824

SizeT(x) == x % SizeModulus

\* print-context.c:62, 119: what the end of argv[2] is; "short" is a name of
\* fewer characters than the suffix compared, for which the start of the
\* comparison lies before the start of the string
Suffixes == {".fits", ".sub", ".dat", "other", "short"}

Collections ==
    {"baselines", "rf_inputs", "antennas", "metafits_coarse_chans", "metafits_timesteps"}

PrintOrder ==
    <<"baselines", "rf_inputs", "antennas", "metafits_coarse_chans", "metafits_timesteps">>

PrintLocals ==
    [file_count |-> 0, suffix |-> "other",
     metafits_context |-> "NULL", correlator_context |-> "NULL",
     voltage_context |-> "NULL", metafits_metadata |-> "NULL",
     count |-> [c \in Collections |-> 0], index |-> [c \in Collections |-> NONE],
     printed |-> 0]

InitPrint ==
    /\ entry = "mwalib-print-context"
    /\ pc = "pr_begin"
    /\ args = [metafits_filename |-> Str(<<"m">>), gpubox_filenames |-> <<>>]
    /\ obs = NoContext
    /\ errorMessage = EmptyMessage
    /\ errExtent = 0
    /\ heap = {}
    /\ handles = {}
    /\ hdu = <<>>
    /\ world = [files |-> {}]
    /\ \E n \in 0..MaxArgs, s \in Suffixes :
          loc = [PrintLocals EXCEPT !.file_count = n,
                                    !.suffix = IF n >= 2 THEN s ELSE "other"]
    /\ ret = NONE
    /\ rc = NONE

PrintUnchanged == UNCHANGED <<entry, args, obs, errorMessage, errExtent, handles, hdu, world, ret>>

PrintExit(code) == pc' = "exited" /\ rc' = code

\* print-context.c:61-62, 119, 172-178: the branch the name of the first
\* data file selects.  A short name makes the comparison read before the
\* string: the program crashes or takes any of the branches.
DataFileBranches(suffix) ==
    CASE suffix = ".fits" -> {"pr_corr_new"}
      [] suffix \in {".sub", ".dat"} -> {"pr_volt_new"}
      [] suffix = "short" -> {"pr_corr_new", "pr_volt_new", "unknown", "crashed"}
      [] OTHER -> {"unknown"}

\* print-context.c:23-41, 59-62, 119, 172-178
PR_Begin ==
    /\ pc = "pr_begin"
    /\ IF loc.file_count < 1
       THEN PrintExit(0) /\ UNCHANGED heap
       ELSE /\ heap' = heap \cup {<<"error_message", 0>>}
            /\ IF loc.file_count = 1
               THEN pc' = "pr_metafits_new" /\ UNCHANGED rc
               ELSE \E b \in DataFileBranches(loc.suffix) :
                       CASE b = "unknown" -> PrintExit(-1)
                         [] b = "crashed" -> Crash
                         [] OTHER -> pc' = b /\ UNCHANGED rc
    /\ UNCHANGED loc
    /\ PrintUnchanged

\* a constructor of the library fails and leaves the pointer as it was
NewContextGoesOn(from, field, to) ==
    /\ pc = from
    /\ \/ loc' = [loc EXCEPT ![field] = field]
       \/ UNCHANGED loc
    /\ pc' = to
    /\ UNCHANGED <<heap, rc>>
    /\ PrintUnchanged

\* print-context.c:43-48, 71-77, 128-132; mwalib.h:536-562: a constructor
\* of the library returns 0 and has stored the context, or returns non-zero
\* and the program ends with exit(-1)
NewContext(from, field, to) ==
    /\ pc = from
    /\ \/ /\ loc' = [loc EXCEPT ![field] = field]
          /\ pc' = to
          /\ UNCHANGED rc
       \/ /\ PrintExit(-1)
          /\ UNCHANGED loc
    /\ UNCHANGED heap
    /\ PrintUnchanged

PR_MetafitsNew == NewContext("pr_metafits_new", "metafits_context", "pr_metadata_get")

PR_CorrelatorNew == NewContext("pr_corr_new", "correlator_context", "pr_corr_use")

PR_VoltageNew == NewContext("pr_volt_new", "voltage_context", "pr_volt_use")

\* print-context.c:79-116, 134-169: the metadata of the context is got,
\* the context displayed, the first common timestep and coarse channel
\* printed and the metadata freed; a failing call ends the program
PR_UseContext ==
    /\ pc \in {"pr_corr_use", "pr_volt_use"}
    /\ \/ pc' = "pr_metadata_get" /\ UNCHANGED rc
       \/ PrintExit(-1)
    /\ UNCHANGED <<heap, loc>>
    /\ PrintUnchanged

\* print-context.c:186-189, 245-248: mwalib_metafits_metadata_get with the
\* three context pointers
PR_MetadataGet ==
    /\ pc = "pr_metadata_get"
    /\ \/ \E n \in [Collections -> 0..MaxCount] :
             loc' = [loc EXCEPT !.metafits_metadata = "metafits_metadata",
                                !.count = n]
          /\ pc' = "pr_print"
       \/ /\ pc' = "pr_cleanup"
          /\ UNCHANGED loc
    /\ UNCHANGED <<heap, rc>>
    /\ PrintUnchanged

\* C's conditional operator: the second operand when the first is not 0
Conditional(first, second, third) == IF first /= 0 THEN second ELSE third

\* print-context.c:192, 196, 200, 204, 208:
\* size_t index = 0 ? count == 0 : count - 1
LastIndex(count) == Conditional(0, IF count = 0 THEN 1 ELSE 0, SizeT(count - 1))

\* print-context.c:191-209: the next collection's index is computed and
\* its element printed
PR_Print ==
    /\ pc = "pr_print"
    /\ loc.printed < Len(PrintOrder)
    /\ LET c == PrintOrder[loc.printed + 1]
       IN  loc' = [loc EXCEPT !.index[c] = LastIndex(loc.count[c]),
                              !.printed = @ + 1]
    /\ UNCHANGED <<pc, heap, rc>>
    /\ PrintUnchanged

\* print-context.c:211-244: the start times and the signal chain
\* corrections are printed and the metadata freed; strftime may fail
PR_Printed ==
    /\ pc = "pr_print"
    /\ loc.printed = Len(PrintOrder)
    /\ \/ /\ loc' = [loc EXCEPT !.metafits_metadata = "NULL"]
          /\ pc' = "pr_cleanup"
          /\ UNCHANGED rc
       \/ /\ pc' = "pr_done"
          /\ rc' = -1
          /\ UNCHANGED loc
    /\ UNCHANGED heap
    /\ PrintUnchanged

\* print-context.c:250-257
PR_CleanUp ==
    /\ pc = "pr_cleanup"
    /\ loc' = [loc EXCEPT !.metafits_context = "NULL",
                          !.correlator_context = "NULL",
                          !.voltage_context = "NULL"]
    /\ heap' = heap \ {<<"error_message", 0>>}
    /\ pc' = "pr_done"
    /\ rc' = EXIT_SUCCESS
    /\ PrintUnchanged

NextPrint ==
    \/ PR_Begin
    \/ PR_MetafitsNew
    \/ PR_CorrelatorNew
    \/ PR_VoltageNew
    \/ PR_UseContext
    \/ PR_MetadataGet
    \/ PR_Print
    \/ PR_Printed
    \/ PR_CleanUp

SpecPrint == InitPrint /\ [][NextPrint]_vars

(***************************************************************************)
(* determine_num_scans (src/lib/src/gpubox.c:322-357), called on a context *)
(* process_args has built, with a memory limit in gigabytes and the        *)
(* caller's int for the result.  loc holds the arguments and the locals.   *)
(***************************************************************************)
MaxMemoryLimit == 2

INT_MAX == 2147483647

\* the NCHANS and NINPUTS of the metafits
NchansValues == {Str(<<"1">>), Str(<<"3", "2", "7", "6", "8">>)}

ScanNInputsValues == NInputsValues \cup {Str(<<"1">>), Str(<<"2", "5", "6">>)}

\* a * b, of operands that are not negative, is an int
IsInt(a, b) == IF a = 0 THEN TRUE ELSE b <= INT_MAX \div a

\* gpubox.c:344: num_chans * gpubox_filename_count * (num_ants + 1) *
\* num_ants / 2 * 4, evaluated from the left
ScanSize(num_chans, count, num_ants) ==
    ((num_chans * count * (num_ants + 1) * num_ants) \div 2) * 4

\* the sizes the model's integers hold: the long long of the code holds more
ScanSizeFits(num_chans, count, num_ants) ==
    /\ IsInt(num_chans, count)
    /\ IsInt(num_chans * count, num_ants + 1)
    /\ IsInt(num_chans * count * (num_ants + 1), num_ants)
    /\ IsInt((num_chans * count * (num_ants + 1) * num_ants) \div 2, 4)

\* C's division of ints: the quotient is truncated towards 0
Quotient(a, b) ==
    LET q == a \div b
    IN  IF a < 0 /\ a % b # 0 THEN q + 1 ELSE q

\* gpubox.c:347: memoryLimit * 1024 * 1024 * 1024 is a product of ints.
\* over: the product is no int, a signed overflow; wrapped: the 32 bits a
\* two's complement multiplication leaves.
GigaBytes(memoryLimit) ==
    LET p == memoryLimit * 1024 * 1024
        q == p % 4194304
    IN  [over |-> ~IsInt(p, 1024),
         wrapped |-> IF q >= 2097152 THEN (q - 4194304) * 1024 ELSE q * 1024]

ScanLocals ==
    [memoryLimit |-> 0, num_scans_ptr |-> "NULL", num_scans |-> UNINIT,
     num_chans |-> UNINIT, num_ants |-> UNINIT, scan_size |-> UNINIT]

InitScans ==
    \E n \in 1 .. MaxFiles, m \in 0 .. MaxMemoryLimit, c \in NchansValues,
       a \in ScanNInputsValues, p \in {"NULL", "caller"} :
       /\ ScanSizeFits(atoi(c), n, atoi(a) \div 2)
       /\ entry = "determine_num_scans"
       /\ pc = "dns_nchans"
       /\ args = [metafits_filename |-> Str(<<"m">>),
                  gpubox_filenames |-> [k \in 1 .. n |-> OldName]]
       /\ obs = [ObsUninit EXCEPT
                     !.obsid = atoi(Str(<<"7">>)),
                     !.num_pols = 4,
                     !.num_baselines = NumBaselines(atoi(a)),
                     !.metafits_filename = Str(<<"m">>),
                     !.gpubox_filename_count = n,
                     !.gpubox_filenames = Array(n, OldName),
                     !.gpubox_ptrs = Array(n, "open")]
       /\ errorMessage = EmptyMessage
       /\ errExtent = 0
       /\ heap = {}
       /\ handles = {<<"metafits", 0>>} \cup {<<"gpubox", i>> : i \in 0 .. n - 1}
       /\ hdu = Array(n, 1)
       /\ world = [nchans |-> c, ninputs |-> a]
       /\ loc = [ScanLocals EXCEPT !.memoryLimit = m, !.num_scans_ptr = p]
       /\ ret = NONE
       /\ rc = NONE

ScansUnchanged == UNCHANGED <<entry, args, obs, heap, handles, hdu, world>>

\* gpubox.c:326-329 with get_fits_long_value (fitsreader.c:115-126)
DNS_Nchans ==
    /\ pc = "dns_nchans"
    /\ \/ /\ loc' = [loc EXCEPT !.num_chans = atoi(world.nchans)]
          /\ pc' = "dns_ninputs"
          /\ UNCHANGED <<errorMessage, errExtent, ret, rc>>
       \/ \E n \in ErrStatusLens :
             /\ errorMessage' = KeywordFailure(n, " (NCHANS)")
             /\ errExtent' = Extent(errExtent, errorMessage')
             /\ CalleeReturn(EXIT_FAILURE, "dns_ret")
             /\ UNCHANGED loc
    /\ ScansUnchanged

\* gpubox.c:331-338 with get_fits_int_value (fitsreader.c:102-113)
DNS_Ninputs ==
    /\ pc = "dns_ninputs"
    /\ \/ /\ loc' = [loc EXCEPT !.num_ants = atoi(world.ninputs) \div 2]
          /\ pc' = "dns_scans"
          /\ UNCHANGED <<errorMessage, errExtent, ret, rc>>
       \/ \E n \in ErrStatusLens :
             /\ errorMessage' = KeywordFailure(n, " (NINPUTS)")
             /\ errExtent' = Extent(errExtent, errorMessage')
             /\ CalleeReturn(EXIT_FAILURE, "dns_ret")
             /\ UNCHANGED loc
    /\ ScansUnchanged

\* gpubox.c:352-354: `if (num_scans == 0) num_scans++;` compares the
\* pointer with 0 and advances the pointer: the int it points at is left
\* as it is
Bumped(num_scans_ptr, num_scans) ==
    [ptr |-> IF num_scans_ptr = "NULL" THEN "NULL + 1" ELSE num_scans_ptr,
     val |-> num_scans]

\* gpubox.c:340-356: the size of a scan, the quotient stored through
\* num_scans, the test for 0.  A signed overflow of the product, a division
\* by 0 and a store through a null pointer are undefined: the process dies,
\* or (the overflow) goes on with the wrapped product.
DNS_Scans ==
    /\ pc = "dns_scans"
    /\ LET scan_size == ScanSize(loc.num_chans, obs.gpubox_filename_count, loc.num_ants)
           bytes == GigaBytes(loc.memoryLimit)
       IN  \/ /\ bytes.over \/ scan_size = 0 \/ loc.num_scans_ptr = "NULL"
              /\ Crash
              /\ loc' = [loc EXCEPT !.scan_size = scan_size]
              /\ UNCHANGED ret
           \/ /\ scan_size # 0
              /\ loc.num_scans_ptr # "NULL"
              /\ loc' = [loc EXCEPT
                    !.scan_size = scan_size,
                    !.num_scans = Bumped(loc.num_scans_ptr,
                                         Quotient(bytes.wrapped, scan_size)).val]
              /\ CalleeReturn(EXIT_SUCCESS, "dns_ret")
    /\ UNCHANGED <<errorMessage, errExtent>>
    /\ ScansUnchanged

NextScans ==
    \/ DNS_Nchans
    \/ DNS_Ninputs
    \/ DNS_Scans

SpecScans == InitScans /\ [][NextScans]_vars

(***************************************************************************)
(* Properties.  What the properties speak of, stated apart from the code:  *)
(* the two file-name patterns, the batch a name puts its file in, the      *)
(* number of channels a CHANNELS value lists, the timestamps of the files. *)
(***************************************************************************)
SetMax(S) == CHOOSE x \in S : \A y \in S : y <= x

SetMin(S) == CHOOSE x \in S : \A y \in S : x <= y

RECURSIVE DigitsEnd(_, _)
DigitsEnd(s, p) == IF IsDigit(CharAt(s, p)) THEN DigitsEnd(s, p + 1) ELSE p

RECURSIVE MatchesFrom(_, _, _, _)
\* the whole of s from position p on is an instance of the pattern from
\* element fi on: "%d" stands for one or more digits
MatchesFrom(s, fmt, fi, p) ==
    IF fi > Len(fmt) THEN p > strlen(s)
    ELSE IF fmt[fi] = "%d"
    THEN IsDigit(CharAt(s, p)) /\ MatchesFrom(s, fmt, fi + 1, DigitsEnd(s, p))
    ELSE CharAt(s, p) = fmt[fi] /\ MatchesFrom(s, fmt, fi + 1, p + 1)

\* obsid_timestamp_gpuboxNN_BB.fits
HasBatchSuffix(name) == MatchesFrom(name, FmtNew, 1, 1)

\* obsid_timestamp_gpuboxNN.fits
HasNoBatchSuffix(name) == MatchesFrom(name, FmtOld, 1, 1)

FileIndexes == 0 .. obs.gpubox_filename_count - 1

\* the batch of a file: the BB of its name, 0 for a name without one
BatchOf(name) ==
    IF HasBatchSuffix(name) THEN sscanf(name, FmtNew).vals[4] ELSE 0

BatchSize(b) ==
    Cardinality({i \in FileIndexes : BatchOf(obs.gpubox_filenames[i]) = b})

LargestBatch == SetMax({BatchOf(obs.gpubox_filenames[i]) : i \in FileIndexes})

\* the batches 1..largest that do not hold as many files as batch 0
MismatchedBatches == {b \in 1 .. LargestBatch : BatchSize(b) # BatchSize(0)}

MixedFormats ==
    /\ \E i \in FileIndexes : HasBatchSuffix(obs.gpubox_filenames[i])
    /\ \E i \in FileIndexes : HasNoBatchSuffix(obs.gpubox_filenames[i])

CountsMessage == "The batch number counts do not match! (%d for 00, %d for %02d)"

AllocationMessages ==
    {"malloc failed for obs->gpubox_filename_batches",
     "malloc failed for obs->gpubox_ptr_batches",
     "malloc failed for obs->gpubox_filename_batches[%d] (batch count = %d)"}

NameMessages ==
    {"Failed to determine the gpubox batch number for %s",
     "The batch number format of %s disagrees with other gpubox files!"}

MismatchMessage ==
    "The number of gpubox files does not match the number of coarse-band channels specified by the metafits!"

FilesPerBatch == obs.gpubox_filename_count \div obs.gpubox_batch_count

\* the file that slot k of batch b points at
BatchFile(b, k) == obs.gpubox_ptr_batches[b].elems[k]

\* the timestamps of the first HDUs of the files of batch 0, and of the last
\* HDUs of the files of the last batch, in milliseconds
FirstTimestamps ==
    {Milliseconds(world.time[BatchFile(0, k)][1]) : k \in 0 .. FilesPerBatch - 1}

LastTimestamps ==
    {Milliseconds(world.time[f][world.hdus[f]]) :
        f \in {BatchFile(obs.gpubox_batch_count - 1, k) : k \in 0 .. FilesPerBatch - 1}}

\* the number of channels a CHANNELS value lists
DeclaredChannels(v) ==
    1 + Cardinality({p \in 1 .. Len(v.body) : v.body[p] = ","})

\* a CHANNELS value that fits the buffer and holds integers only
WellFormed(v) ==
    /\ strlen(v) <= CoarseChannelStringSize
    /\ ParseInts(strsep_all(v), 1, <<>>).ok

\* CHANNELS has been read and lists more channels than a batch has files
MoreDeclaredThanSupplied ==
    /\ world.channels # NULL
    /\ WellFormed(world.channels)
    /\ DeclaredChannels(world.channels) > FilesPerBatch

\* C1: when determine_obs_times returns EXIT_SUCCESS, the start time is the
\* greatest first-HDU timestamp of the files of batch 0 and the end time is
\* the least last-HDU timestamp of the files of the last batch, whatever the
\* non-negative timestamps are, 0 included.
C1_ObsTimes ==
    (pc = "dot_ret" /\ ret = EXIT_SUCCESS) =>
        /\ obs.start_time_milliseconds = SetMax(FirstTimestamps)
        /\ obs.end_time_milliseconds = SetMin(LastTimestamps)

\* C2 as stated: when determine_gpubox_batches returns and some batch b in
\* 1..largest does not hold as many files as batch 0, it returns EXIT_FAILURE
\* and the message carries b, batch 0's count and batch b's count; it returns
\* EXIT_SUCCESS only when no batch differs.
C2_MessageAlways ==
    pc = "dgb_ret" =>
        /\ MismatchedBatches # {} =>
              /\ ret = EXIT_FAILURE
              /\ \E b \in MismatchedBatches :
                    /\ errorMessage.fmt = CountsMessage
                    /\ errorMessage.args = <<BatchSize(0), BatchSize(b), b>>
        /\ ret = EXIT_SUCCESS => MismatchedBatches = {}

\* C2: when determine_gpubox_batches returns and some batch b in 1..largest
\* does not hold as many files as batch 0, it returns EXIT_FAILURE, and the
\* message is that of a failed allocation, that of a list whose names are not
\* all of the batch-suffix pattern, or the counts message with batch 0's
\* count, the count of the first differing batch and that batch's number; the
\* counts message is written only for such a list, and EXIT_SUCCESS is
\* returned only when no batch differs.
C2_BatchCounts ==
    pc = "dgb_ret" =>
        /\ MismatchedBatches # {} =>
              /\ ret = EXIT_FAILURE
              /\ \/ errorMessage.fmt \in AllocationMessages
                 \/ /\ errorMessage.fmt \in NameMessages
                    /\ \E i \in FileIndexes : ~HasBatchSuffix(obs.gpubox_filenames[i])
                 \/ /\ errorMessage.fmt = CountsMessage
                    /\ LET b == SetMin(MismatchedBatches)
                       IN  errorMessage.args = <<BatchSize(0), BatchSize(b), b>>
        /\ errorMessage.fmt = CountsMessage => MismatchedBatches # {}
        /\ ret = EXIT_SUCCESS => MismatchedBatches = {}

\* two files in batch 0 and one in batch 1, reported as such
C2_Witness ==
    /\ pc = "dgb_ret"
    /\ ret = EXIT_FAILURE
    /\ errorMessage.fmt = CountsMessage
    /\ errorMessage.args = <<2, 1, 1>>

\* C3: when determine_gpubox_batches returns on a list that holds a name
\* with the batch suffix and a name without it, it returns EXIT_FAILURE with
\* a message that names a file; on a list that holds a name of neither
\* pattern it returns EXIT_FAILURE too.
C3_Formats ==
    pc = "dgb_ret" =>
        /\ MixedFormats =>
              ret = EXIT_FAILURE /\ errorMessage.fmt \in NameMessages
        /\ (\E i \in FileIndexes :
               /\ ~HasBatchSuffix(obs.gpubox_filenames[i])
               /\ ~HasNoBatchSuffix(obs.gpubox_filenames[i]))
           => ret = EXIT_FAILURE

\* C4: once CHANNELS has been read, process_args returns EXIT_FAILURE whenever
\* the files per batch are not as many as the channels CHANNELS lists; it
\* never returns EXIT_SUCCESS with the two unequal.
C4_ChannelCheck ==
    (/\ pc = "done"
     /\ world.channels # NULL
     /\ FilesPerBatch # DeclaredChannels(world.channels))
    => rc = EXIT_FAILURE

C6_Released ==
    (pc = "done" /\ rc = EXIT_FAILURE) => heap = {} /\ handles = {}

\* C7: when process_args returns EXIT_SUCCESS on a metafits with
\* NINPUTS = 2N, obs->num_baselines is N*(N+1)/2.
C7_Baselines ==
    (pc = "done" /\ rc = EXIT_SUCCESS) =>
        LET N == atoi(world.ninputs) \div 2
        IN  obs.num_baselines = (N * (N + 1)) \div 2

\* C8: process_args called with no metafits filename ever set, or with no
\* gpubox filename, does not crash and opens no file: it returns
\* EXIT_FAILURE with 'Metafits filename missing' or 'gpubox / mwax fits
\* files missing'.
C8_MissingInputs ==
    (/\ pc \notin {"main", "exit", "pa_check"}
     /\ args.metafits_filename = NULL \/ gpubox_filename_count(args) = 0)
    => /\ pc = "done"
       /\ rc = EXIT_FAILURE
       /\ handles = {}
       /\ errorMessage.fmt =
             IF args.metafits_filename = NULL \/ strlen(args.metafits_filename) = 0
             THEN "Metafits filename missing"
             ELSE "gpubox / mwax fits files missing"

\* C9: errorMessage is not empty when process_args returns EXIT_FAILURE and
\* is empty when it returns EXIT_SUCCESS.
C9_Message ==
    pc = "done" =>
        /\ rc = EXIT_FAILURE => errorMessage.len > 0
        /\ rc = EXIT_SUCCESS => errorMessage.len = 0

\* C10: no write into errorMessage, the appended suffixes included, reaches
\* past MWALIB_ERROR_MESSAGE_LEN bytes, and the text ends within them.
C10_MessageBounded ==
    /\ errExtent <= MWALIB_ERROR_MESSAGE_LEN
    /\ errorMessage.len < MWALIB_ERROR_MESSAGE_LEN

\* a token that is a base-10 integer and nothing else: an optional sign, then
\* digits up to its end
IsInteger(tok) ==
    LET first == IF CharAt(tok, 1) \in {"-", "+"} THEN 2 ELSE 1
    IN  /\ IsDigit(CharAt(tok, first))
        /\ DigitsEnd(tok, first) > strlen(tok)

\* the k-th integer a CHANNELS value lists
ListedInt(v, k) == atoi(strsep_all(v)[k])

\* C11: when get_fits_comma_delimited_ints has read the keyword's string, it
\* returns EXIT_FAILURE exactly when some token between the delimiters ',',
\* ' ' and '@' is not a base-10 integer and nothing else (an empty token, a
\* token such as '12x'); otherwise it returns EXIT_SUCCESS with the integers
\* stored in input order.
C11_Tokens ==
    (/\ pc = "reader_ret"
     /\ entry = "get_fits_comma_delimited_ints"
     /\ errorMessage.fmt # "cfitsio status")
    => LET toks == strsep_all(world.channels)
       IN  /\ ret = EXIT_FAILURE <=> \E k \in 1 .. Len(toks) : ~IsInteger(toks[k])
           /\ (ret = EXIT_SUCCESS /\ world.garbage >= 0) =>
                 \A k \in 1 .. Len(toks) :
                    obs.coarse_channels[world.garbage + k - 1] = atoi(toks[k])

\* C12: when process_args returns EXIT_SUCCESS, obs->num_coarse_channels is
\* the number of integers CHANNELS lists and coarse_channels[0..n-1] holds
\* them in order, whatever *obs held before; when the parse of CHANNELS
\* fails, the count is as it was before the call.
C12_ChannelList ==
    /\ (pc = "done" /\ rc = EXIT_SUCCESS) =>
          /\ obs.num_coarse_channels = DeclaredChannels(world.channels)
          /\ \A k \in 1 .. DeclaredChannels(world.channels) :
                obs.coarse_channels[k - 1] = ListedInt(world.channels, k)
    /\ (/\ pc = "done"
        /\ errorMessage.fmt =
              "Failed to parse int from string in fits file (get_fits_comma_delimited_ints)")
       => obs.num_coarse_channels = world.garbage

\* C13: when the keyword's string is not a base-10 integer, get_fits_long_value
\* (and its twins for int and long long) returns EXIT_FAILURE and leaves
\* *value as it was; it never returns EXIT_SUCCESS with a value put in its
\* place.
C13_Unparsable ==
    (/\ pc = "reader_ret"
     /\ entry = "get_fits_long_value"
     /\ errorMessage.fmt # "cfitsio status"
     /\ ~IsInteger(world.gpstime))
    => ret = EXIT_FAILURE /\ obs.obsid = UNINIT

\* the element of S that has exactly i smaller elements in S
Ranked(S, i) == CHOOSE v \in S : Cardinality({u \in S : u < v}) = i

InProvidedRange(files, t, c) ==
    /\ t \in 0 .. Cardinality(provided_timesteps(files)) - 1
    /\ c \in 0 .. Cardinality(provided_coarse_chans(files)) - 1

\* every supplied file holds the timestep and the coarse channel of (t, c)
IsCommonPair(files, t, c) ==
    /\ InProvidedRange(files, t, c)
    /\ \A f \in files :
          /\ Ranked(provided_timesteps(files), t) \in f.timesteps
          /\ Ranked(provided_coarse_chans(files), c) \in f.coarse_chans

Ragged(files) ==
    \E t \in 0 .. MaxSteps, c \in 0 .. MaxChans :
       InProvidedRange(files, t, c) /\ ~IsCommonPair(files, t, c)

StrictlyAscending(list) ==
    \A j, k \in 1 .. Len(list) : j < k => list[j] < list[k]

\* C14: a read request with a buffer of at least the required length is
\* decided in this order: InvalidIndex when an index is outside the provided
\* range, else NoDataForCombination when the pair is not common, else the
\* read is issued and the outcome is that of the read: Success, or
\* ReadFailure when the data file's read fails.  No pair that is not common
\* returns Success and no index out of range returns NoDataForCombination.
C14_OutcomeOrder ==
    (pc = "read" /\ loc.buffer_len >= obs.num_timestep_coarse_chan_floats)
    => LET t == loc.timestep_index
           c == loc.coarse_chan_index
       IN  /\ ~InProvidedRange(world.files, t, c)
              => ret = "InvalidIndex" /\ loc.io = "none"
           /\ (InProvidedRange(world.files, t, c) /\ ~IsCommonPair(world.files, t, c))
              => ret = "NoDataForCombination" /\ loc.io = "none"
           /\ IsCommonPair(world.files, t, c)
              => /\ loc.io # "none"
                 /\ loc.io = "ok" => ret = "Success"
                 /\ loc.io = "error" => ret = "ReadFailure"

\* a common pair of a ragged file set read with a buffer of the exact size
C14_Witness ==
    /\ pc = "read"
    /\ Ragged(world.files)
    /\ loc.buffer_len = obs.num_timestep_coarse_chan_floats
    /\ IsCommonPair(world.files, loc.timestep_index, loc.coarse_chan_index)
    /\ ret = "Success"

CanSucceed(t, c) ==
    ENABLED (/\ ReadByBaseline
             /\ loc'.timestep_index = t
             /\ loc'.coarse_chan_index = c
             /\ loc'.buffer_len = obs.num_timestep_coarse_chan_floats
             /\ ret' = "Success")

C16_CommonIndices ==
    ~obs.isNull
    => /\ Elements(obs.common_timestep_indices)
             \subseteq Elements(obs.provided_timestep_indices)
       /\ Elements(obs.common_coarse_chan_indices)
             \subseteq Elements(obs.provided_coarse_chan_indices)
       /\ StrictlyAscending(obs.common_timestep_indices)
       /\ StrictlyAscending(obs.common_coarse_chan_indices)
       /\ StrictlyAscending(obs.provided_timestep_indices)
       /\ StrictlyAscending(obs.provided_coarse_chan_indices)
       /\ \A i \in Elements(obs.common_timestep_indices) :
             /\ i \in 0 .. Len(obs.timesteps) - 1
             /\ \A f \in world.files : obs.timesteps[i + 1] \in f.timesteps
       /\ \A i \in Elements(obs.common_coarse_chan_indices) :
             /\ i \in 0 .. Len(obs.coarse_chans) - 1
             /\ \A f \in world.files : obs.coarse_chans[i + 1] \in f.coarse_chans

\* a context whose first timestep and first coarse channel are not common
C16_Witness ==
    /\ ~obs.isNull
    /\ obs.common_timestep_indices # <<>>
    /\ obs.common_coarse_chan_indices # <<>>
    /\ obs.common_timestep_indices[1] > 0
    /\ obs.common_coarse_chan_indices[1] > 0


\* C17: after free_mwaObsContext on a context that process_args has built,
\* every FITS handle is closed and every allocation is freed, each once.
C17_Released ==
    pc = "freed" => handles = {} /\ heap = {}


RECURSIVE SumOfLocalSums(_, _)
SumOfLocalSums(slots, n) ==
    IF n = 0 THEN 0 ELSE slots[n - 1].local_sum + SumOfLocalSums(slots, n - 1)

\* the (timestep, coarse channel) pair a slot was given
PairOf(slot) ==
    IF entry = "do_sum_parallel_pthreads_read_file"
    THEN <<slot.timestep_index, slot.coarse_chan_index>>
    ELSE <<slot.gps_second_start, slot.coarse_chan_index>>

\* the pairs a call asks for
PairsOfCall(a) ==
    {<<IF entry = "do_sum_parallel_pthreads_read_file"
       THEN t ELSE a.first_gps_second + (t - a.first_timestep_index) * a.timestep_duration_seconds,
       c>> :
        t \in a.first_timestep_index .. a.last_timestep_index,
        c \in a.first_chan_index .. a.last_chan_index}

Started == {k \in DOMAIN loc.threads : loc.threads[k] # "none"}

\* C18: main reads a worker's local_sum only once the worker has ended and
\* is joined, each worker writes the slot it was created with and no
\* other, the slots and their error messages stay allocated while a worker
\* is not joined, and the total printed is the sum of what the workers left
\* in local_sum.
C18_JoinedSums ==
    /\ \A r \in loc.reads : r.thread = "exited"
    /\ \A a \in DOMAIN loc.args : loc.args[a].writers \subseteq {a}
    /\ (pc # "exited" /\ \E k \in Started : loc.threads[k] # "joined")
       => /\ <<"args", 0>> \in heap
          /\ <<"threads", 0>> \in heap
          /\ \A k \in DOMAIN loc.args : <<"args[].error_message", k>> \in heap
    /\ pc = "sum_done"
       => /\ \A k \in DOMAIN loc.threads : loc.threads[k] = "joined"
          /\ ret = SumOfLocalSums(loc.args, loc.num_threads)

\* the total of three workers, two of which left different sums
C18_Witness ==
    /\ pc = "sum_done"
    /\ loc.num_threads = 3
    /\ loc.args[0].local_sum = 2
    /\ loc.args[1].local_sum = -1
    /\ ret = 1

\* C19: arg_index is below num_threads at every pthread_create; once the
\* creation loops are over, exactly num_timesteps * num_coarse_chans workers
\* are created, worker k on slot k, the slots hold the pairs of the call,
\* each once, and every slot holds the one shared context.
C19_Workers ==
    /\ pc # "aborted"
    /\ (pc = "sum_create" /\ ~CreateDone) => loc.arg_index < loc.num_threads
    /\ \A k \in Started : loc.workers[k].arg = k /\ loc.args[k].context = "context"
    /\ pc \in {"sum_join", "sum_done"}
       => LET a == loc.call
              n == (a.last_timestep_index - a.first_timestep_index + 1)
                   * (a.last_chan_index - a.first_chan_index + 1)
          IN  /\ loc.num_threads = n
              /\ Started = 0 .. n - 1
              /\ DOMAIN loc.args = 0 .. n - 1
              /\ {PairOf(loc.args[k]) : k \in 0 .. n - 1} = PairsOfCall(a)
              /\ \A j, k \in 0 .. n - 1 :
                    j # k => PairOf(loc.args[j]) # PairOf(loc.args[k])

\* three workers at work on the one context at the same time
C19_Witness ==
    /\ pc = "sum_join"
    /\ loc.num_threads = 3
    /\ \A k \in 0 .. 2 : loc.threads[k] = "running"


\* the objects the library has handed out, the program's own buffers apart
OwnBuffers == {"gpuboxes", "error_message", "do_sum.error_message", "data_buffer"}

\* C20: when an example returns EXIT_SUCCESS, every object it obtained from
\* the library has gone to its free function, once, and none was used or
\* freed when it was no longer live.
C20_AllReleased ==
    (pc = "ex_done" /\ rc = EXIT_SUCCESS)
    => /\ loc.obtained \subseteq loc.released
       /\ loc.misused = {}
       /\ \A a \in heap : a[1] \in OwnBuffers



\* the context pointers of print-context that are not NULL
NonNullContexts ==
    {f \in {"metafits_context", "correlator_context", "voltage_context"} : loc[f] /= "NULL"}

\* C21: whenever the print-context example is about to call
\* mwalib_metafits_metadata_get, exactly one of metafits_context,
\* correlator_context and voltage_context is not NULL.
C21_OneContext ==
    (entry = "mwalib-print-context" /\ pc = "pr_metadata_get")
        => Cardinality(NonNullContexts) = 1

C21_Witness ==
    /\ entry = "mwalib-print-context"
    /\ pc = "pr_metadata_get"
    /\ loc.voltage_context /= "NULL"
    /\ loc.suffix = "short"

\* C26: in print-context the index computed for each printed collection
\* lies within the collection, 0 <= index < count, for every count,
\* the empty collection included.
C26_IndexInRange ==
    entry = "mwalib-print-context" =>
        \A c \in Collections :
            loc.index[c] /= NONE =>
                0 <= loc.index[c] /\ loc.index[c] < loc.count[c]


\* the slots (b, k) of a batch array that refer to file i
SlotsOf(batches, i) ==
    {<<b, k>> \in (0 .. obs.gpubox_batch_count - 1) \X (0 .. FilesPerBatch - 1) :
        /\ k \in DOMAIN batches[b].elems
        /\ batches[b].elems[k] = i}

C23_AtFirstHdu ==
    entry = "process_args" =>
        /\ (pc = "dot_begin" \/ (pc = "dot_ret" /\ ret = EXIT_SUCCESS)
               \/ (pc = "done" /\ rc = EXIT_SUCCESS)) =>
              \A f \in DOMAIN hdu : hdu[f] = 1
        /\ \A f \in DOMAIN world.readAt : world.readAt[f] = 1

\* one batch (the first batch is the last one), and file 0, of two HDUs,
\* has been moved by both functions
C23_Witness ==
    /\ entry = "process_args"
    /\ pc = "done"
    /\ rc = EXIT_SUCCESS
    /\ obs.gpubox_batch_count = 1
    /\ obs.gpubox_filename_count = 2
    /\ world.hdus[0] = 2
    /\ DOMAIN world.readAt = {0, 1}


\* C24: after process_args succeeds obs->num_fine_channels is the NAXIS2 of
\* HDU 2 of the first gpubox file.
C24_FineChannels ==
    (entry = "process_args" /\ pc = "done" /\ rc = EXIT_SUCCESS) =>
        /\ world.naxis2 # NULL
        /\ obs.num_fine_channels = atoi(world.naxis2)


\* C25: whenever determine_num_scans returns EXIT_SUCCESS it has set
\* *num_scans to 1 or more, whatever the memory limit: a quotient of 0 is
\* bumped to 1.
C25_AtLeastOneScan ==
    (entry = "determine_num_scans" /\ pc = "dns_ret" /\ ret = EXIT_SUCCESS) =>
        loc.num_scans >= 1


\* C29: after process_args returns EXIT_SUCCESS the start time of the
\* observation is not later than its end time: files with no time in
\* common are not accepted.
C29_StartBeforeEnd ==
    (entry = "process_args" /\ pc = "done" /\ rc = EXIT_SUCCESS) =>
        obs.start_time_milliseconds <= obs.end_time_milliseconds


\* the files the first loop of determine_gpubox_batches has counted
CountedFiles ==
    IF pc = "dgb_scan" THEN 0 .. loc.i - 1
    ELSE IF pc \in {"dgb_alloc_batch", "dgb_populate"} THEN FileIndexes
    ELSE {}

\* C28: every index determine_gpubox_batches uses into batch_counts and
\* the batch arrays is in 0 .. MWALIB_MAX_GPUBOX_BATCHES - 1: a file whose
\* batch number is not is rejected with an error, never counted.
C28_IndexInRange ==
    entry = "determine_gpubox_batches" =>
        /\ \A i \in CountedFiles :
              HasBatchSuffix(obs.gpubox_filenames[i]) =>
                  BatchOf(obs.gpubox_filenames[i]) \in 0 .. MWALIB_MAX_GPUBOX_BATCHES - 1
        /\ (\E i \in FileIndexes :
                /\ HasBatchSuffix(obs.gpubox_filenames[i])
                /\ BatchOf(obs.gpubox_filenames[i]) \notin 0 .. MWALIB_MAX_GPUBOX_BATCHES - 1)
              => ~(pc = "dgb_ret" /\ ret = EXIT_SUCCESS)


\* there is a thread on slot k and its state is one of S
ThreadIs(k, S) == k \in DOMAIN loc.threads /\ loc.threads[k] \in S

\* the workers that have been created and have not ended
Unfinished == {k \in DOMAIN loc.threads : loc.threads[k] \in {"created", "running", "stored"}}

\* C27 as stated: every worker that is created ends and the main thread
\* joins all workers and prints the total: the process never ends with
\* exit() once a worker has been created.
C27_TotalPrinted ==
    (entry \in {"do_sum_parallel_pthreads_read_file", "do_sum_parallel_pthreads_read_second"}
        /\ pc = "exited")
      => \A k \in DOMAIN loc.threads : loc.threads[k] = "none"

\* C27, amended: under fair scheduling every worker that is created ends
\* or the process has ended with exit(), no worker that has not ended
\* waits for anything, and the main thread, once it creates workers,
\* prints the total or has ended the process with exit().
C27_Terminates ==
    /\ \A k \in 0 .. MaxWorkers - 1 :
          ThreadIs(k, {"created"}) ~> (pc = "exited" \/ ThreadIs(k, {"exited", "joined"}))
    /\ [](\A k \in Unfinished : Running => ENABLED WorkerStep(k))
    /\ (pc = "sum_create") ~> (pc \in {"sum_done", "exited"})

\* the total is printed after one worker's read failed and another's
\* succeeded
C27_Witness ==
    /\ pc = "sum_done"
    /\ \E k \in DOMAIN loc.threads : loc.args[k].writers = {}
    /\ \E k \in DOMAIN loc.threads : loc.args[k].writers # {}


\* C30: whenever "Total sum" is printed, every worker's read returned
\* MWALIB_SUCCESS or MWALIB_NO_DATA_FOR_TIMESTEP_COARSECHAN and the worker
\* stored its sum: no worker that ended on a read error, an invalid
\* version or a failed calloc is part of a reported total
C30_NoAbsorbedError ==
    (entry \in {"do_sum_parallel_pthreads_read_file", "do_sum_parallel_pthreads_read_second"}
        /\ pc = "sum_done")
      => \A k \in DOMAIN loc.threads :
            k \in loc.args[loc.workers[k].arg].writers

=============================================================================
